---------------------------- MODULE Spec2Model ----------------------------
(***************************************************************************)
(* The Maze of Osiris: the challenge engine (app/all_challenges.py), the   *)
(* team store (app/database/database.py) and the round_1 puzzle            *)
(* generators, as a state machine.                                         *)
(*                                                                         *)
(* Every request handler is a coroutine; it gives up control only at an    *)
(* `await` of a store operation.  One step of the model is the store       *)
(* operation a handler was waiting for, followed by the synchronous code   *)
(* up to its next await.  MongoDB applies each find_one / update_one /     *)
(* insert_one atomically on one document.                                  *)
(*                                                                         *)
(* Strings that the code only passes around (names, keys, messages) are    *)
(* TLA+ strings.  Strings the code computes on (answers, samples, flags)   *)
(* are sequences of code points, so that str.strip and the base-69         *)
(* conversion are computed as the code computes them.                      *)
(***************************************************************************)
EXTENDS Integers, Sequences, FiniteSets, Bags, TLC

VARIABLES
    teams,               \* the `teams` collection: documents in insertion order
    files,               \* artifact files on disk: location -> embedded answer
    pending,             \* update_one calls issued without await, not yet applied
    challenges_id,       \* AllChallenges.challenges_id      {id: class name}
    challenges_classes,  \* AllChallenges.challenges_classes {id: instance}
    req,                 \* per handler: the coroutine's position and locals
    nreq,                \* requests started so far
    applied,             \* history: update_score calls whose update_one completed
    returned,            \* history: last question list returned per team
    call                 \* a synchronous call made outside a request: its
                         \* arguments, and its result once it has returned

vars == <<teams, files, pending, challenges_id, challenges_classes,
          req, nreq, applied, returned, call>>

---------------------------------------------------------------------------
(* Bounds of the model.                                                    *)

\* Requests started in one behaviour of Spec, where they run concurrently.
MaxRequests == 3

\* Requests started in one behaviour of SerialSpec, where they run in turn.
MaxSerial == 5

\* Coroutines that can be in flight at once.
Handlers == {"h1", "h2"}

\* No synchronous call is being followed.
NoCall == [op |-> "None", pc |-> "none"]

\* Python's None, for an absent parameter or a missing document.  No team
\* id, challenge id or key of the model is this string.
None == "None"

---------------------------------------------------------------------------
(* dict helpers: a dict is a function whose DOMAIN is its key set.         *)

EmptyDict == [k \in {} |-> 0]

\* dict.get(k, default)
Get(d, k, default) == IF k \in DOMAIN d THEN d[k] ELSE default

\* d[k] = v
Put(d, k, v) == [x \in (DOMAIN d) \cup {k} |-> IF x = k THEN v ELSE d[x]]

\* MongoDB $inc on field k: a missing field counts as 0 and is created.
Inc(d, k, n) == Put(d, k, Get(d, k, 0) + n)

RECURSIVE SumOver(_, _)
SumOver(d, ks) ==
    IF ks = {} THEN 0
    ELSE LET k == CHOOSE x \in ks : TRUE IN d[k] + SumOver(d, ks \ {k})

\* sum(d.values())
SumValues(d) == SumOver(d, DOMAIN d)

\* Occurrences of x in the list s.
Count(s, x) == Cardinality({i \in 1..Len(s) : s[i] = x})

\* x in s, for a list s
InList(x, s) == \E i \in 1..Len(s) : s[i] = x

---------------------------------------------------------------------------
(* Strings as sequences of code points.                                    *)

\* str.isspace for the code points the model uses: TAB LF VT FF CR, FS..US, SPACE.
IsSpace(c) == c \in {9, 10, 11, 12, 13, 28, 29, 30, 31, 32}

RECURSIVE LStrip(_)
LStrip(s) == IF s # <<>> /\ IsSpace(Head(s)) THEN LStrip(Tail(s)) ELSE s

RECURSIVE RStrip(_)
RStrip(s) ==
    IF s # <<>> /\ IsSpace(s[Len(s)]) THEN RStrip(SubSeq(s, 1, Len(s) - 1)) ELSE s

\* str.strip()
Strip(s) == RStrip(LStrip(s))

---------------------------------------------------------------------------
(* Base69: the custom base-69 encoding (round_1/base_69/challenge.py).     *)

RADIX == 69

\* BASE_STRING[i] = chr(0x1F600 + i): the i-th digit's character.
BaseChar(i) == 128512 + i

\* BASE_STRING.index(c)
BaseIndex(c) == c - 128512

RECURSIVE DigitsOf(_)
DigitsOf(num) ==
    IF num = 0 THEN <<>> ELSE Append(DigitsOf(num \div RADIX), num % RADIX)

RECURSIVE DigitsAppended(_)
\* The remainders in the order the loop appends them.
DigitsAppended(num) ==
    IF num = 0 THEN <<>> ELSE <<num % RADIX>> \o DigitsAppended(num \div RADIX)

\* decimal_to_radix returning the digits without reversing them.
decimal_to_radix_Unreversed(num) == IF num = 0 THEN <<0>> ELSE DigitsAppended(num)

\* decimal_to_radix: most significant digit first, (0,) for zero.
decimal_to_radix(num) == IF num = 0 THEN <<0>> ELSE DigitsOf(num)

RECURSIVE radix_to_decimal(_)
radix_to_decimal(num_in_radix) ==
    IF num_in_radix = <<>> THEN 0
    ELSE radix_to_decimal(SubSeq(num_in_radix, 1, Len(num_in_radix) - 1)) * RADIX
         + num_in_radix[Len(num_in_radix)]

\* int.from_bytes(b, byteorder="big")
RECURSIVE FromBytes(_)
FromBytes(b) ==
    IF b = <<>> THEN 0
    ELSE FromBytes(SubSeq(b, 1, Len(b) - 1)) * 256 + b[Len(b)]

\* num.to_bytes((num.bit_length() + 7) // 8, byteorder="big")
RECURSIVE ToBytes(_)
ToBytes(num) == IF num = 0 THEN <<>> ELSE Append(ToBytes(num \div 256), num % 256)

encode(string) ==
    LET num_in_radix == decimal_to_radix(FromBytes(string))
    IN  [i \in 1..Len(num_in_radix) |-> BaseChar(num_in_radix[i])]

decode(encoded_string) ==
    LET num_in_radix == [i \in 1..Len(encoded_string) |-> BaseIndex(encoded_string[i])]
    IN  ToBytes(radix_to_decimal(num_in_radix))

\* `samples` (module sample): the ASCII strings Base69 draws from; "Hi", "OK".
samples == {<<72, 105>>, <<79, 75>>}

\* What generate_random_string can return for a flag or a file name,
\* cut down to two values: "7k", "Qz".
RandomStrings == {<<55, 107>>, <<81, 122>>}

---------------------------------------------------------------------------
(* The puzzle generators: what Challenge.__init__ stores, and how each     *)
(* class generates.  kind "Base69" generates inside generate_question and  *)
(* has no get_file_location; kind "file" generates inside gen_question /   *)
(* get_question, reached only from get_file_location.                      *)

Base69 ==
    [name |-> "Base69", kind |-> "Base69", points |-> 200, penalty |-> 40,
     hints |-> <<>>, answer_key |-> ""]

NeedleInTheHaystack ==
    [name |-> "NeedleInTheHaystack", kind |-> "file", points |-> 400, penalty |-> 50,
     hints |-> << <<200, "Extract all the strings">> >>,
     answer_key |-> "flag"]

RandomSequence ==
    [name |-> "RandomSequence", kind |-> "file", points |-> 50, penalty |-> 30,
     hints |-> << <<40, "Heard the term 'HEX'?">> >>,
     answer_key |-> "flag"]

TheBlackSheep ==
    [name |-> "TheBlackSheep", kind |-> "file", points |-> 300, penalty |-> 50,
     hints |-> << <<200, "You should consider document fingerprinting">> >>,
     answer_key |-> "file_name"]

TooMuchLight ==
    [name |-> "TooMuchLight", kind |-> "file", points |-> 500, penalty |-> 100,
     hints |-> << <<200, "The intensity of the light overwhelms, blindingly bright, obscuring the flag from view. Perhaps consider adjusting the brightness to alleviate the glare.">> >>,
     answer_key |-> "flag"]

\* A generator as Challenge.__init__ allows it, with three hints: no class
\* of round_1 has more than one, and get_hint's ordering rule needs two.
ThreeHints ==
    [name |-> "ThreeHints", kind |-> "file", points |-> 100, penalty |-> 10,
     hints |-> << <<30, "first">>, <<20, "second">>, <<10, "third">> >>,
     answer_key |-> "flag"]

\* The classes found under app/challenges/round_1, in sorted path order.
Round1 == <<Base69, NeedleInTheHaystack, RandomSequence, TheBlackSheep, TooMuchLight>>

\* A round that also holds the three-hint generator.
RoundN == <<Base69, NeedleInTheHaystack, ThreeHints>>

\* str(index + 1)
IdOf(index) == ToString(index)

\* AllChallenges.__init__: ids "1", "2", ... in discovery order.
LoadIds(classes) ==
    [id \in {IdOf(i) : i \in 1..Len(classes)} |->
        LET i == CHOOSE j \in 1..Len(classes) : IdOf(j) = id IN classes[i].name]

LoadClasses(classes) ==
    [id \in {IdOf(i) : i \in 1..Len(classes)} |->
        LET i == CHOOSE j \in 1..Len(classes) : IdOf(j) = id IN classes[i]]

\* The ids in the order dict.items() yields them (insertion order).
RECURSIVE IdsFrom(_, _)
IdsFrom(i, n) == IF i > n THEN <<>> ELSE <<IdOf(i)>> \o IdsFrom(i + 1, n)

IdOrder == IdsFrom(1, Cardinality(DOMAIN challenges_classes))

---------------------------------------------------------------------------
(* Database: the teams collection.                                         *)

\* create_team's document.  A defaultdict is stored as an empty document;
\* data_to_validate is not created here: a missing field reads like {}.
NewTeam(count, team_id, team_name) ==
    [team_no            |-> count,
     team_id            |-> team_id,
     team_name          |-> team_name,
     total_attempts     |-> EmptyDict,
     incorrect_attempts |-> EmptyDict,
     cleared_challenges |-> <<>>,
     points             |-> EmptyDict,
     total_points       |-> 0,
     time               |-> EmptyDict,
     hints              |-> EmptyDict,
     questions          |-> EmptyDict,
     data_to_validate   |-> EmptyDict]

\* create_team: count_documents, then insert_one.
create_team(coll, team_id, team_name) ==
    Append(coll, NewTeam(Len(coll), team_id, team_name))

\* A filter that every document matches: the first document, if any.
Match_Any(coll, team_id) == IF Len(coll) > 0 THEN 1 ELSE 0

\* Index of the first document with this team_id, 0 when there is none.
Match(coll, team_id) ==
    IF \E i \in 1..Len(coll) : coll[i].team_id = team_id
    THEN CHOOSE i \in 1..Len(coll) :
            /\ coll[i].team_id = team_id
            /\ \A j \in 1..(i - 1) : coll[j].team_id # team_id
    ELSE 0

\* teams.find_one({"team_id": team_id}): <<the document>>, or <<>> for None.
get_team(coll, team_id) ==
    IF Match(coll, team_id) = 0 THEN <<>> ELSE <<coll[Match(coll, team_id)]>>

IsNone(team) == team = <<>>

is_team_exists(coll, team_id) == Match(coll, team_id) # 0

\* teams.update_one({"team_id": team_id}, ...): the first match becomes doc;
\* nothing happens when no document matches.
ReplaceFirst(coll, team_id, doc) ==
    IF Match(coll, team_id) = 0 THEN coll
    ELSE [coll EXCEPT ![Match(coll, team_id)] = doc]

\* update_score with the sign of a wrong answer's points lost.
ScoreUpdate_Unsigned(doc, team, is_correct, points, challenge_name) ==
    LET inc == [doc EXCEPT
                  !.points = Inc(@, challenge_name, points),
                  !.total_points = @ + points,
                  !.total_attempts = Inc(@, challenge_name, 1),
                  !.incorrect_attempts =
                      Inc(@, challenge_name, IF is_correct THEN 0 ELSE 1)]
    IN  IF is_correct
        THEN [inc EXCEPT !.cleared_challenges = Append(@, challenge_name),
                         !.time = Put(@, challenge_name, "set")]
        ELSE inc

\* update_score without "total_points" in its $inc.
ScoreUpdate_NoTotal(doc, team, is_correct, points, challenge_name) ==
    LET signed == IF is_correct THEN points ELSE -points
        inc == [doc EXCEPT
                  !.points = Inc(@, challenge_name, signed),
                  !.total_attempts = Inc(@, challenge_name, 1),
                  !.incorrect_attempts =
                      Inc(@, challenge_name, IF is_correct THEN 0 ELSE 1)]
    IN  IF is_correct
        THEN [inc EXCEPT !.cleared_challenges = Append(@, challenge_name),
                         !.time = Put(@, challenge_name, "set")]
        ELSE inc

\* update_score counting every attempt as an incorrect one.
ScoreUpdate_CountsEveryAttempt(doc, team, is_correct, points, challenge_name) ==
    LET signed == IF is_correct THEN points ELSE -points
        inc == [doc EXCEPT
                  !.points = Inc(@, challenge_name, signed),
                  !.total_points = @ + signed,
                  !.total_attempts = Inc(@, challenge_name, 1),
                  !.incorrect_attempts = Inc(@, challenge_name, 1)]
    IN  IF is_correct
        THEN [inc EXCEPT !.cleared_challenges = Append(@, challenge_name),
                         !.time = Put(@, challenge_name, "set")]
        ELSE inc

\* update_score as a read-modify-write: $set of the values computed from
\* the document read at line 104, in place of $inc.
ScoreUpdate_ReadModifyWrite(doc, team, is_correct, points, challenge_name) ==
    LET signed == IF is_correct THEN points ELSE -points
        set == [doc EXCEPT
                  !.points = Put(@, challenge_name, Get(team.points, challenge_name, 0) + signed),
                  !.total_points = team.total_points + signed,
                  !.total_attempts =
                      Put(@, challenge_name, Get(team.total_attempts, challenge_name, 0) + 1),
                  !.incorrect_attempts =
                      Put(@, challenge_name,
                          Get(team.incorrect_attempts, challenge_name, 0)
                          + (IF is_correct THEN 0 ELSE 1))]
    IN  IF is_correct
        THEN [set EXCEPT !.cleared_challenges = Append(@, challenge_name),
                         !.time = Put(@, challenge_name, "set")]
        ELSE set

\* update_score counting an attempt only when the answer is correct.
ScoreUpdate_AttemptsOnSuccess(doc, team, is_correct, points, challenge_name) ==
    LET signed == IF is_correct THEN points ELSE -points
        inc == [doc EXCEPT
                  !.points = Inc(@, challenge_name, signed),
                  !.total_points = @ + signed,
                  !.total_attempts = Inc(@, challenge_name, IF is_correct THEN 1 ELSE 0),
                  !.incorrect_attempts =
                      Inc(@, challenge_name, IF is_correct THEN 0 ELSE 1)]
    IN  IF is_correct
        THEN [inc EXCEPT !.cleared_challenges = Append(@, challenge_name),
                         !.time = Put(@, challenge_name, "set")]
        ELSE inc

\* update_score's update operation applied to the stored document `doc`.
\* `team` is the document update_score read before (used for the None
\* check only).  datetime.now() is kept as the mark "set".
ScoreUpdate(doc, team, is_correct, points, challenge_name) ==
    LET signed == IF is_correct THEN points ELSE -points
        inc == [doc EXCEPT
                  !.points = Inc(@, challenge_name, signed),
                  !.total_points = @ + signed,
                  !.total_attempts = Inc(@, challenge_name, 1),
                  !.incorrect_attempts =
                      Inc(@, challenge_name, IF is_correct THEN 0 ELSE 1)]
    IN  IF is_correct
        THEN [inc EXCEPT !.cleared_challenges = Append(@, challenge_name),
                         !.time = Put(@, challenge_name, "set")]
        ELSE inc

\* update_hint_score without its second update.
HintUpdate_Dropped(doc, challenge_name) == doc

\* update_hint_score's second update also creating questions.<name>.
HintUpdate_CreatesQuestion(doc, challenge_name) ==
    [doc EXCEPT !.hints = Inc(@, challenge_name, 1),
                !.questions = Put(@, challenge_name, EmptyDict)]

\* update_hint_score's second update: {"$inc": {"hints.<name>": 1}}
HintUpdate(doc, challenge_name) ==
    [doc EXCEPT !.hints = Inc(@, challenge_name, 1)]

\* A generator's update with "questions.<name>" only in its $set.
ContentUpdate_QuestionOnly(doc, challenge_name, question, validation) ==
    [doc EXCEPT !.questions = Put(@, challenge_name, question)]

\* A generator's {"$set": {"questions.<name>": q, "data_to_validate.<name>": v}}
ContentUpdate(doc, challenge_name, question, validation) ==
    [doc EXCEPT !.questions = Put(@, challenge_name, question),
                !.data_to_validate = Put(@, challenge_name, validation)]

---------------------------------------------------------------------------
(* AllChallenges: the synchronous code between two awaits, as operators.   *)

HTTPException(status_code, detail) ==
    [exception |-> "HTTPException", status_code |-> status_code, detail |-> detail]

ValueError(detail) == [exception |-> "ValueError", detail |-> detail]

Raised(ret) == "exception" \in DOMAIN ret

\* validate_team_id, given the answer of is_team_exists: the exception
\* raised, or EmptyDict when the check passes.
validate_team_id(coll, team_id) ==
    IF team_id = None THEN HTTPException(422, "team_id parameter missing.")
    ELSE IF ~is_team_exists(coll, team_id) THEN HTTPException(400, "team_id invalid")
    ELSE EmptyDict

\* validate_team_and_challenge_id looking at the challenge id first.
validate_team_and_challenge_id_ChallengeFirst(coll, team_id, challenge_id) ==
    IF challenge_id = None
    THEN HTTPException(422, "challenge_id parameter missing.")
    ELSE IF challenge_id \notin DOMAIN challenges_id
         THEN HTTPException(400, "challenge_id invalid")
    ELSE validate_team_id(coll, team_id)

validate_team_and_challenge_id(coll, team_id, challenge_id) ==
    IF Raised(validate_team_id(coll, team_id)) THEN validate_team_id(coll, team_id)
    ELSE IF challenge_id = None
         THEN HTTPException(422, "challenge_id parameter missing.")
    ELSE IF challenge_id \notin DOMAIN challenges_id
         THEN HTTPException(400, "challenge_id invalid")
    ELSE EmptyDict

\* data_to_validate.<name> as the generators store it: the expected fields
\* in the document's key order.
Expect(key, value) == [key |-> key, value |-> value]

\* validate naming the last expected key that the submission lacks.
FirstMissing_Last(data_to_validate, data) ==
    IF \E i \in 1..Len(data_to_validate) : data_to_validate[i].key \notin DOMAIN data
    THEN CHOOSE i \in 1..Len(data_to_validate) :
            /\ data_to_validate[i].key \notin DOMAIN data
            /\ \A j \in (i + 1)..Len(data_to_validate) :
                  data_to_validate[j].key \in DOMAIN data
    ELSE 0

\* The first expected key that the submission lacks, 0 when none is missing.
FirstMissing(data_to_validate, data) ==
    IF \E i \in 1..Len(data_to_validate) : data_to_validate[i].key \notin DOMAIN data
    THEN CHOOSE i \in 1..Len(data_to_validate) :
            /\ data_to_validate[i].key \notin DOMAIN data
            /\ \A j \in 1..(i - 1) : data_to_validate[j].key \in DOMAIN data
    ELSE 0

\* validate comparing the fields as they are, white space included.
Mismatch_Unstripped(data_to_validate, data) ==
    \E i \in 1..Len(data_to_validate) :
        data[data_to_validate[i].key] # data_to_validate[i].value

\* Some expected field differs from the submitted one after both are stripped.
Mismatch(data_to_validate, data) ==
    \E i \in 1..Len(data_to_validate) :
        Strip(data[data_to_validate[i].key]) # Strip(data_to_validate[i].value)

\* validate without the test for missing validation data.
DataMissing_Unchecked(data_to_validate) == FALSE

\* not data_to_validate (line 179): nothing, or an empty dict, is stored.
DataMissing(data_to_validate) == data_to_validate = <<>>

\* validate and get_hint without the cleared check.
AlreadyCleared_Unchecked(team, challenge_name) == FALSE

\* str(challenge_name) in cleared_challenges (lines 168 and 275)
AlreadyCleared(team, challenge_name) == InList(challenge_name, team.cleared_challenges)

\* get_hint without the order check.
HintAllowed_AnyOrder(hints_taken, hint_no) == TRUE

\* hints_taken + 1 >= hint_no (line 288): the hint is paid for, or is the next one.
HintAllowed(hints_taken, hint_no) == hints_taken + 1 >= hint_no

\* get_hint charging every hint it returns.
IsNextHint_Always(hints_taken, hint_no) == TRUE

\* hints_taken + 1 == hint_no (line 299): the hint is the next one, and is charged.
IsNextHint(hints_taken, hint_no) == hints_taken + 1 = hint_no

\* get_hint answering every bad hint number with the range message.
InvalidHintMessage_Range(hints_count) ==
    <<"Invalid hint number. ", "Please provide a hint number between 1 and ",
      hints_count, ".">>

\* The error message for a hint number out of range (lines 311-319).
InvalidHintMessage(hints_count) ==
    IF hints_count = 0 THEN "No hints available for this level."
    ELSE IF hints_count = 1
         THEN "There is only one hint available for this level."
         ELSE <<"Invalid hint number. ", "Please provide a hint number between 1 and ",
                hints_count, ".">>

\* What a handler does next: return `ret`, raise `ret`, or call the store
\* update named by `next` and return `ret` afterwards.
Plan(next, is_correct, points, ret) ==
    [next |-> next, is_correct |-> is_correct, points |-> points, ret |-> ret]

\* validate's failure branch with a message that names the first expected
\* field whose submitted value differs.
Incorrect_NamesField(team, challenge_id, data) ==
    LET challenge_name   == challenges_id[challenge_id]
        challenge_cls    == challenges_classes[challenge_id]
        data_to_validate == team.data_to_validate[challenge_name]
        first == CHOOSE i \in 1..Len(data_to_validate) :
                    /\ Strip(data[data_to_validate[i].key]) # Strip(data_to_validate[i].value)
                    /\ \A j \in 1..(i - 1) :
                          Strip(data[data_to_validate[j].key]) = Strip(data_to_validate[j].value)
    IN  Plan("update_score", FALSE, challenge_cls.penalty,
             [challenge_id   |-> challenge_id,
              challenge_name |-> challenge_name,
              status         |-> "failure",
              message        |-> <<"Your answer is incorrect: ", data_to_validate[first].key>>,
              penalty_points |-> challenge_cls.penalty,
              total_score    |-> team.total_points - challenge_cls.penalty])

\* validate at the first field that differs (lines 192-207): the penalty
\* goes to update_score and the response is built from the team read.
Incorrect(team, challenge_id, data) ==
    LET challenge_name == challenges_id[challenge_id]
        challenge_cls  == challenges_classes[challenge_id]
    IN  Plan("update_score", FALSE, challenge_cls.penalty,
             [challenge_id   |-> challenge_id,
              challenge_name |-> challenge_name,
              status         |-> "failure",
              message        |-> "Your answer is incorrect.",
              penalty_points |-> challenge_cls.penalty,
              total_score    |-> team.total_points - challenge_cls.penalty])

\* validate with the checks of the submission made before the cleared check.
validate_SubmissionFirst(team, challenge_id, data) ==
    LET total_score       == team.total_points
        challenge_name    == challenges_id[challenge_id]
        challenge_cls     == challenges_classes[challenge_id]
        data_to_validate  == Get(team.data_to_validate, challenge_name, <<>>)
    IN  IF DataMissing(data_to_validate)
        THEN Plan("raise", FALSE, 0,
                  HTTPException(500,
                     "Data validation information is missing. Please make a GET request to /question to retrieve the necessary data."))
        ELSE IF FirstMissing(data_to_validate, data) # 0
        THEN Plan("raise", FALSE, 0,
                  HTTPException(422,
                     <<"Missing required parameter: ",
                       data_to_validate[FirstMissing(data_to_validate, data)].key>>))
        ELSE IF AlreadyCleared(team, challenge_name)
        THEN Plan("return", FALSE, 0,
                  [challenge_id   |-> challenge_id,
                   challenge_name |-> challenge_name,
                   status         |-> "info",
                   message        |-> "You have already cleared this level.",
                   total_score    |-> total_score])
        ELSE IF Mismatch(data_to_validate, data)
        THEN Incorrect(team, challenge_id, data)
        ELSE Plan("update_score", TRUE, challenge_cls.points,
                  [challenge_id   |-> challenge_id,
                   challenge_name |-> challenge_name,
                   status         |-> "success",
                   message        |-> "Your answer is correct.",
                   points_awarded |-> challenge_cls.points,
                   total_score    |-> total_score + challenge_cls.points])

\* validate, from the answer of get_team (line 163) to the next await.
validate(team, challenge_id, data) ==
    LET total_score       == team.total_points
        challenge_name    == challenges_id[challenge_id]
        challenge_cls     == challenges_classes[challenge_id]
        data_to_validate  == Get(team.data_to_validate, challenge_name, <<>>)
    IN  IF AlreadyCleared(team, challenge_name)
        THEN Plan("return", FALSE, 0,
                  [challenge_id   |-> challenge_id,
                   challenge_name |-> challenge_name,
                   status         |-> "info",
                   message        |-> "You have already cleared this level.",
                   total_score    |-> total_score])
        ELSE IF DataMissing(data_to_validate)
        THEN Plan("raise", FALSE, 0,
                  HTTPException(500,
                     "Data validation information is missing. Please make a GET request to /question to retrieve the necessary data."))
        ELSE IF FirstMissing(data_to_validate, data) # 0
        THEN Plan("raise", FALSE, 0,
                  HTTPException(422,
                     <<"Missing required parameter: ",
                       data_to_validate[FirstMissing(data_to_validate, data)].key>>))
        ELSE IF Mismatch(data_to_validate, data)
        THEN Incorrect(team, challenge_id, data)
        ELSE Plan("update_score", TRUE, challenge_cls.points,
                  [challenge_id   |-> challenge_id,
                   challenge_name |-> challenge_name,
                   status         |-> "success",
                   message        |-> "Your answer is correct.",
                   points_awarded |-> challenge_cls.points,
                   total_score    |-> total_score + challenge_cls.points])

\* get_hint, from the answer of get_team (line 273) to the next await.
get_hint(team, challenge_id, hint_no) ==
    LET challenge_name == challenges_id[challenge_id]
        challenge_cls  == challenges_classes[challenge_id]
        hints_count    == Len(challenge_cls.hints)
        hints_taken    == Get(team.hints, challenge_name, 0)
        total_score    == team.total_points
        hint_cost      == challenge_cls.hints[hint_no][1]
        hint           == challenge_cls.hints[hint_no][2]
    IN  IF AlreadyCleared(team, challenge_name)
        THEN Plan("return", FALSE, 0,
                  [challenge_id   |-> challenge_id,
                   challenge_name |-> challenge_name,
                   status         |-> "info",
                   message        |-> "You have already cleared this level."])
        ELSE IF 0 < hint_no /\ hint_no <= hints_count
        THEN IF HintAllowed(hints_taken, hint_no)
             THEN IF IsNextHint(hints_taken, hint_no)
                  THEN Plan("update_hint_score", FALSE, hint_cost,
                            [challenge_id   |-> challenge_id,
                             challenge_name |-> challenge_name,
                             status         |-> "sucess",
                             hint_no        |-> hint_no,
                             hint           |-> hint,
                             total_score    |-> total_score - hint_cost,
                             hint_cost      |-> hint_cost])
                  ELSE Plan("return", FALSE, 0,
                            [challenge_id   |-> challenge_id,
                             challenge_name |-> challenge_name,
                             status         |-> "sucess",
                             hint_no        |-> hint_no,
                             hint           |-> hint,
                             total_score    |-> total_score])
             ELSE Plan("return", FALSE, 0,
                       [status  |-> "failure",
                        message |-> <<"Hint request must follow sequential order.Middle hints cannot be requested.">>])
        ELSE Plan("raise", FALSE, 0,
                  HTTPException(400, InvalidHintMessage(hints_count)))

\* generate_full_question with the hints' texts in hints_list.
generate_full_question_WithHintText(cls, challenge_id, question) ==
    [challenge_id |-> challenge_id,
     points       |-> cls.points,
     penalty      |-> cls.penalty,
     hints        |-> [count |-> Len(cls.hints),
                       hints_list |-> [i \in 1..Len(cls.hints) |->
                                          [hint_no |-> i, points |-> cls.hints[i][1],
                                           hint |-> cls.hints[i][2]]]]]
    @@ question

\* Challenge.generate_full_question: question | additional_info, the keys
\* of additional_info winning over those of question.
generate_full_question(cls, challenge_id, question) ==
    LET additional_info ==
            [challenge_id |-> challenge_id,
             points       |-> cls.points,
             penalty      |-> cls.penalty,
             hints        |-> [count |-> Len(cls.hints),
                               hints_list |-> [i \in 1..Len(cls.hints) |->
                                                  [hint_no |-> i, points |-> cls.hints[i][1]]]]]
    IN  additional_info @@ question

\* generate_question of NeedleInTheHaystack, RandomSequence, TheBlackSheep
\* and TooMuchLight: the title and the template with the links and the id,
\* no store access.
FileQuestion(cls, challenge_id) ==
    generate_full_question(cls, challenge_id,
        [title       |-> cls.name,
         description |-> <<"question.txt", challenge_id>>])

\* Base69.generate_question, given what get_strings returned (the constant
\* character_set and reference entries are left out).
Base69Question(cls, challenge_id, encode_string, decode_string) ==
    generate_full_question(cls, challenge_id,
        [title         |-> cls.name,
         description   |-> <<"question.txt", decode_string, encode_string, challenge_id>>,
         encode_string |-> encode_string,
         decode_string |-> decode_string])

\* generate_all_question's loop from position i on, with `questions` so far:
\* it runs to the first generator that awaits the store (position returned
\* in idx), or to the end (idx past the last id).
RECURSIVE RunLoop(_, _)
RunLoop(i, questions) ==
    IF i > Len(IdOrder) THEN [idx |-> i, questions |-> questions]
    ELSE LET challenge_id == IdOrder[i]
             challenge    == challenges_classes[challenge_id]
         IN  IF challenge.kind = "Base69"
             THEN [idx |-> i, questions |-> questions]
             ELSE RunLoop(i + 1, Append(questions, FileQuestion(challenge, challenge_id)))

\* generate_all_question's return value.
AllQuestions(questions) ==
    [Note            |-> "All the data that is submitted via POST method should be of type string.",
     questions       |-> questions,
     total_questions |-> Len(questions)]

\* A file generator with one artifact path for all teams.
Location_Shared(cls, team_id) == <<cls.name>>

\* Where a file generator puts the artifact of a team.
Location(cls, team_id) == <<cls.name, team_id>>

---------------------------------------------------------------------------
(* The handlers.                                                           *)
(*                                                                         *)
(* A handler's locals: team (validate's and get_hint's `team`), plan (the  *)
(* update the handler calls and the response it returns afterwards),       *)
(* us_team (update_score's `team`), idx and questions (the loop of         *)
(* generate_all_question), write (a generator's update).                   *)
(* pc of a handler: the store operation it awaits.                         *)
(*   "exists"    is_team_exists, in validate_team_id (line 98)             *)
(*   "get_team"  get_team, in validate (163) or get_hint (273)             *)
(*   "us_read"   get_team, in update_score (line 104)                      *)
(*   "us_write"  update_one, in update_score (line 125)                    *)
(*   "uh_inc"    update_one, in update_hint_score (line 175)               *)
(*   "gen_read"  get_team, in a generator (get_strings, gen_question)      *)
(*   "gen_write" update_one, in a file generator                          *)
(*   "idle", "done"  no request yet / the request has returned or raised   *)

Request(op, team_id, challenge_id, hint_no, data) ==
    [op |-> op, team_id |-> team_id, challenge_id |-> challenge_id,
     hint_no |-> hint_no, data |-> data]

NoPlan == Plan("return", FALSE, 0, EmptyDict)

NoWrite == [question |-> EmptyDict, validation |-> <<>>]

IdleReq ==
    [pc |-> "idle", op |-> None, team_id |-> None, challenge_id |-> None,
     hint_no |-> 0, data |-> EmptyDict,
     team |-> <<>>, plan |-> NoPlan, us_team |-> <<>>, idx |-> 0, questions |-> <<>>,
     write |-> NoWrite, ret |-> EmptyDict,
     pre |-> <<>>, prev |-> <<>>]

Running(h) == req[h].pc \notin {"idle", "done"}

\* The handler returns or raises `ret`.
Finish(h, ret) ==
    req' = [req EXCEPT ![h].pc = "done", ![h].ret = ret]

\* A request arrives.  pre and prev are history: the team's document, and
\* the question list last returned to the team, when the request arrived.
Start(h, r, max) ==
    /\ ~Running(h)
    /\ nreq < max
    /\ nreq' = nreq + 1
    /\ req' = [req EXCEPT ![h] =
                 [IdleReq EXCEPT !.pc = "exists", !.op = r.op, !.team_id = r.team_id,
                                 !.challenge_id = r.challenge_id,
                                 !.hint_no = r.hint_no, !.data = r.data,
                                 !.pre = get_team(teams, r.team_id),
                                 !.prev = IF r.team_id \in DOMAIN returned
                                          THEN <<returned[r.team_id]>> ELSE <<>>]]
    /\ UNCHANGED <<teams, files, pending, challenges_id, challenges_classes, call,
                   applied, returned>>

\* generate_all_question goes on from position i of its loop.
Loop(h, i, questions) ==
    LET run == RunLoop(i, questions)
    IN  IF run.idx > Len(IdOrder)
        THEN /\ Finish(h, AllQuestions(run.questions))
             /\ returned' = Put(returned, req[h].team_id, run.questions)
        ELSE /\ req' = [req EXCEPT ![h].pc = "gen_read", ![h].idx = run.idx,
                                   ![h].questions = run.questions]
             /\ UNCHANGED returned

\* is_team_exists answers; validate_team_id / validate_team_and_challenge_id
\* finish, and the operation runs to its next await.
Exists(h) ==
    LET q == req[h]
        check == IF q.op = "generate_all_question"
                 THEN validate_team_id(teams, q.team_id)
                 ELSE validate_team_and_challenge_id(teams, q.team_id, q.challenge_id)
    IN  /\ q.pc = "exists"
        /\ IF Raised(check)
           THEN Finish(h, check) /\ UNCHANGED returned
           ELSE CASE q.op = "generate_all_question" -> Loop(h, 1, <<>>)
                  [] q.op \in {"validate", "get_hint"} ->
                        /\ req' = [req EXCEPT ![h].pc = "get_team"]
                        /\ UNCHANGED returned
                  [] q.op = "get_file_location" ->
                        /\ IF challenges_classes[q.challenge_id].kind = "Base69"
                           THEN Finish(h, HTTPException(400,
                                    "The given level doesnot have any files."))
                           ELSE req' = [req EXCEPT ![h].pc = "gen_read"]
                        /\ UNCHANGED returned
        /\ UNCHANGED <<teams, files, pending, challenges_id, challenges_classes, call,
                       nreq, applied>>

\* get_team answers in validate or get_hint.
GetTeam(h) ==
    LET q    == req[h]
        team == get_team(teams, q.team_id)[1]
        plan == IF q.op = "validate"
                THEN validate(team, q.challenge_id, q.data)
                ELSE get_hint(team, q.challenge_id, q.hint_no)
    IN  /\ q.pc = "get_team"
        /\ req' = [req EXCEPT
                     ![h].team = <<team>>,
                     ![h].plan = plan,
                     ![h].pc  = IF plan.next \in {"return", "raise"}
                                THEN "done" ELSE "us_read",
                     ![h].ret = IF plan.next \in {"return", "raise"}
                                THEN plan.ret ELSE @]
        /\ UNCHANGED <<teams, files, pending, challenges_id, challenges_classes, call,
                       nreq, applied, returned>>

\* update_score going on to its update_one when get_team found no team.
UsRead_Unchecked(h) ==
    /\ req[h].pc = "us_read"
    /\ req' = [req EXCEPT ![h].pc = "us_write", ![h].us_team = get_team(teams, req[h].team_id)]
    /\ UNCHANGED <<teams, files, pending, challenges_id, challenges_classes, call,
                   nreq, applied, returned>>

\* update_score: get_team answers (line 104).
UsRead(h) ==
    LET q    == req[h]
        team == get_team(teams, q.team_id)
    IN  /\ q.pc = "us_read"
        /\ IF IsNone(team)
           THEN Finish(h, ValueError(<<"Team with ID ", q.team_id, " not found.">>))
           ELSE req' = [req EXCEPT ![h].pc = "us_write", ![h].us_team = team]
        /\ UNCHANGED <<teams, files, pending, challenges_id, challenges_classes, call,
                       nreq, applied, returned>>

\* history: one more completed update_score call for (team_id, name).
Record(team_id, challenge_name, delta) ==
    LET k   == <<team_id, challenge_name>>
        old == Get(applied, k, [sum |-> 0, calls |-> 0])
    IN  Put(applied, k, [sum |-> old.sum + delta, calls |-> old.calls + 1])

\* update_score: update_one is applied (line 125) and update_score returns,
\* to validate, which returns, or to update_hint_score, which goes on.
UsWrite(h) ==
    LET q    == req[h]
        name == challenges_id[q.challenge_id]
        doc  == get_team(teams, q.team_id)
    IN  /\ q.pc = "us_write"
        /\ teams' = IF IsNone(doc) THEN teams
                    ELSE ReplaceFirst(teams, q.team_id,
                            ScoreUpdate(doc[1], q.us_team[1], q.plan.is_correct,
                                        q.plan.points, name))
        /\ applied' = IF IsNone(doc) THEN applied
                      ELSE Record(q.team_id, name,
                                  IF q.plan.is_correct THEN q.plan.points
                                  ELSE 0 - q.plan.points)
        /\ IF q.plan.next = "update_hint_score"
           THEN req' = [req EXCEPT ![h].pc = "uh_inc"]
           ELSE Finish(h, q.plan.ret)
        /\ UNCHANGED <<files, pending, challenges_id, challenges_classes, call,
                       nreq, returned>>

\* update_hint_score: the second update_one is applied (line 175); get_hint
\* returns the response it built before.
UhInc(h) ==
    LET q    == req[h]
        name == challenges_id[q.challenge_id]
        doc  == get_team(teams, q.team_id)
    IN  /\ q.pc = "uh_inc"
        /\ teams' = IF IsNone(doc) THEN teams
                    ELSE ReplaceFirst(teams, q.team_id, HintUpdate(doc[1], name))
        /\ Finish(h, q.plan.ret)
        /\ UNCHANGED <<files, pending, challenges_id, challenges_classes, call,
                       nreq, applied, returned>>

\* A non-awaited update_one: the store will apply it at some later time.
Issued(team_id, challenge_name, write) ==
    [team_id |-> team_id, challenge_name |-> challenge_name, write |-> write]

\* Base69.get_strings, from the answer of get_team (line 98) on; then
\* generate_question builds the question and generate_all_question's loop
\* goes on.  A first generation draws the two samples and issues the write
\* without awaiting it (line 109).
Base69GetStrings(h) ==
    LET q   == req[h]
        cls == challenges_classes[IdOrder[q.idx]]
        team == get_team(teams, q.team_id)
        stored == IF IsNone(team) THEN EmptyDict
                  ELSE Get(team[1].questions, "Base69", EmptyDict)
        encode_string == Get(stored, "encode_string", <<>>)
        decode_string == Get(stored, "decode_string", <<>>)
    IN  IF encode_string # <<>> /\ decode_string # <<>>
        THEN /\ Loop(h, q.idx + 1,
                     Append(q.questions,
                            Base69Question(cls, IdOrder[q.idx], encode_string, decode_string)))
             /\ UNCHANGED pending
        ELSE \E random_string \in samples :
             \E new_decode \in samples \ {random_string} :
                LET new_encode == encode(random_string)
                    write == [question   |-> [encode_string |-> new_encode,
                                              decode_string |-> new_decode],
                              validation |-> <<Expect("encoded_string", encode(new_decode)),
                                               Expect("decoded_string", decode(new_encode))>>]
                IN  /\ pending' = pending (+) SetToBag({Issued(q.team_id, "Base69", write)})
                    /\ Loop(h, q.idx + 1,
                            Append(q.questions,
                                   Base69Question(cls, IdOrder[q.idx], new_encode, new_decode)))

\* gen_question making a new artifact on every call.
FileGenQuestion_Regenerates(h) ==
    LET q   == req[h]
        cls == challenges_classes[q.challenge_id]
    IN  \E flag_value \in RandomStrings :
           /\ files' = Put(files, Location(cls, q.team_id), flag_value)
           /\ req' = [req EXCEPT
                        ![h].pc = "gen_write",
                        ![h].write =
                           [question   |-> [location |-> Location(cls, q.team_id)],
                            validation |-> <<Expect(cls.answer_key, flag_value)>>]]

\* gen_question / get_question of a file generator, from the answer of
\* get_team on: the stored location, or a new artifact written to disk and
\* the update_one that get_file_location then awaits.
FileGenQuestion(h) ==
    LET q    == req[h]
        cls  == challenges_classes[q.challenge_id]
        team == get_team(teams, q.team_id)
        question   == IF IsNone(team) THEN EmptyDict
                      ELSE Get(team[1].questions, cls.name, EmptyDict)
        validation == IF IsNone(team) THEN <<>>
                      ELSE Get(team[1].data_to_validate, cls.name, <<>>)
        location   == Get(question, "location", <<>>)
        answer     == IF validation = <<>> THEN <<>> ELSE validation[1].value
    IN  IF location # <<>> /\ answer # <<>>
        THEN /\ Finish(h, [location |-> location])
             /\ UNCHANGED files
        ELSE \E flag_value \in RandomStrings :
                /\ files' = Put(files, Location(cls, q.team_id), flag_value)
                /\ req' = [req EXCEPT
                             ![h].pc = "gen_write",
                             ![h].write =
                                [question   |-> [location |-> Location(cls, q.team_id)],
                                 validation |-> <<Expect(cls.answer_key, flag_value)>>]]

\* get_team answers inside a generator.
GenRead(h) ==
    /\ req[h].pc = "gen_read"
    /\ IF req[h].op = "generate_all_question"
       THEN Base69GetStrings(h) /\ UNCHANGED files
       ELSE FileGenQuestion(h) /\ UNCHANGED <<pending, returned>>
    /\ UNCHANGED <<teams, challenges_id, challenges_classes, call, nreq, applied>>

\* A file generator's update_one is applied; get_file_location returns.
GenWrite(h) ==
    LET q   == req[h]
        cls == challenges_classes[q.challenge_id]
        doc == get_team(teams, q.team_id)
    IN  /\ q.pc = "gen_write"
        /\ teams' = IF IsNone(doc) THEN teams
                    ELSE ReplaceFirst(teams, q.team_id,
                            ContentUpdate(doc[1], cls.name, q.write.question,
                                          q.write.validation))
        /\ Finish(h, [location |-> q.write.question.location])
        /\ UNCHANGED <<files, pending, challenges_id, challenges_classes, call,
                       nreq, applied, returned>>

\* The store applies an update_one that Base69.get_strings did not await.
Apply(w) ==
    LET doc == get_team(teams, w.team_id)
    IN  /\ BagIn(w, pending)
        /\ pending' = pending (-) SetToBag({w})
        /\ teams' = IF IsNone(doc) THEN teams
                    ELSE ReplaceFirst(teams, w.team_id,
                            ContentUpdate(doc[1], w.challenge_name, w.write.question,
                                          w.write.validation))
        /\ UNCHANGED <<files, challenges_id, challenges_classes, call, req, nreq,
                       applied, returned>>

---------------------------------------------------------------------------
(* Specifications.                                                         *)

\* The state after AllChallenges() has loaded `classes` and the teams in
\* `ids` have been created, in this order.
RECURSIVE Created(_)
Created(ids) ==
    IF ids = <<>> THEN <<>>
    ELSE create_team(Created(SubSeq(ids, 1, Len(ids) - 1)), ids[Len(ids)], "Team")

InitWith(classes, ids) ==
    /\ teams = Created(ids)
    /\ files = EmptyDict
    /\ pending = EmptyBag
    /\ challenges_id = LoadIds(classes)
    /\ challenges_classes = LoadClasses(classes)
    /\ req = [h \in Handlers |-> IdleReq]
    /\ nreq = 0
    /\ applied = EmptyDict
    /\ returned = EmptyDict
    /\ call = NoCall

Step(h) ==
    \/ Exists(h)
    \/ GetTeam(h)
    \/ UsRead(h)
    \/ UsWrite(h)
    \/ UhInc(h)
    \/ GenRead(h)
    \/ GenWrite(h)

\* At most max requests of the handlers in hs, drawn from rs; with `serial`,
\* one at a time.
NextWith(hs, rs, serial, max) ==
    \/ \E h \in hs : \E r \in rs :
          /\ serial => \A g \in Handlers : ~Running(g)
          /\ Start(h, r, max)
    \/ \E h \in hs : Step(h)
    \/ \E w \in BagToSet(pending) : Apply(w)

\* The submissions of the model for a Base69 question: the right answer
\* to one of the variants get_strings can draw (wrong for the other one).
Base69Answers ==
    {[encoded_string |-> encode(d), decoded_string |-> r] :
        <<r, d>> \in {p \in samples \X samples : p[1] # p[2]}}

\* The submissions for a file puzzle: a candidate answer under its key.
FileAnswers(cls) == {Put(EmptyDict, cls.answer_key, v) : v \in RandomStrings}

\* Requests of team T1 for Base69 ("1") and NeedleInTheHaystack ("2").  Each
\* puzzle has one submission: it is right when the generator drew the
\* variant it answers ("Hi" encoded and "OK" to encode; flag "7k"), and
\* wrong when it drew the other one.
Requests ==
    {Request("generate_all_question", "T1", None, 0, EmptyDict)}
    \cup {Request("validate", "T1", "1", 0,
                  [encoded_string |-> encode(<<79, 75>>), decoded_string |-> <<72, 105>>])}
    \cup {Request("validate", "T1", "2", 0, [flag |-> <<55, 107>>])}
    \cup {Request("get_hint", "T1", "2", 1, EmptyDict)}
    \cup {Request("get_file_location", "T1", "2", 0, EmptyDict)}

Init == InitWith(Round1, <<"T1">>)

Next == NextWith(Handlers, Requests, FALSE, MaxRequests)

\* Concurrent requests of one team against the round_1 registry.
Spec == Init /\ [][Next]_vars

\* Submissions for a Base69 question that lack expected keys: the first
\* one, the second one (the field that is present being wrong), or both.
Base69Partial ==
    {[decoded_string |-> <<88>>], [encoded_string |-> <<88>>], [other |-> <<88>>]}

\* Requests of team T1 against RoundN: Base69 ("1"), NeedleInTheHaystack
\* ("2") and ThreeHints ("3"); for "2" also an answer padded with white
\* space (" 7k\n") and a submission without the expected key; for "1" also
\* the submissions that lack keys.
SerialRequests ==
    {Request("generate_all_question", "T1", None, 0, EmptyDict)}
    \cup {Request("validate", "T1", "1", 0, d) : d \in Base69Answers \cup Base69Partial}
    \cup {Request("validate", "T1", "2", 0, d) :
             d \in FileAnswers(NeedleInTheHaystack)
                   \cup {[flag |-> <<32, 55, 107, 10>>], [other |-> <<55, 107>>]}}
    \cup {Request("get_file_location", "T1", "2", 0, EmptyDict)}
    \cup {Request("get_hint", "T1", "2", 1, EmptyDict)}
    \cup {Request("get_hint", "T1", "3", k, EmptyDict) : k \in 1..3}

SerialInit == InitWith(RoundN, <<"T1">>)

SerialNext == NextWith({"h1"}, SerialRequests, TRUE, MaxSerial)

\* One request at a time: each starts after the one before has returned.
\* The store still applies un-awaited updates whenever it gets to them.
SerialSpec == SerialInit /\ [][SerialNext]_vars

---------------------------------------------------------------------------
(* Properties.                                                             *)

\* The stored document of a team that exists.
Doc(team_id) == get_team(teams, team_id)[1]

\* The request of handler h names a registered puzzle of an existing team.
Addressed(h) ==
    /\ ~IsNone(req[h].pre)
    /\ req[h].challenge_id \in DOMAIN challenges_id

PuzzleName(h) == challenges_id[req[h].challenge_id]

PuzzleClass(h) == challenges_classes[req[h].challenge_id]

Done(h, op) == req[h].pc = "done" /\ req[h].op = op

\* The puzzle of h's request was cleared when the request arrived.
ClearedAtStart(h) ==
    Addressed(h) /\ InList(PuzzleName(h), req[h].pre[1].cleared_challenges)

\* total_points, points[p], hints[p], total_attempts[p], incorrect_attempts[p]
Scores(doc, p) ==
    <<doc.total_points, Get(doc.points, p, 0), Get(doc.hints, p, 0),
      Get(doc.total_attempts, p, 0), Get(doc.incorrect_attempts, p, 0)>>

\* C1: a validate or get_hint call that arrives once the puzzle is in
\* cleared_challenges never updates the store (so total_points, points[p],
\* hints[p], total_attempts[p] and incorrect_attempts[p] stay as they are)
\* and returns the status "info" outcome, whatever else runs meanwhile.
C1_ClearedIsInfo ==
    [][\A h \in Handlers :
          ( /\ req[h].op \in {"validate", "get_hint"}
            /\ Running(h)
            /\ ClearedAtStart(h)
            /\ req'[h] # req[h] )
          => /\ teams' = teams
             /\ req'[h].pc = "done" =>
                   /\ Get(req'[h].ret, "status", "") = "info"
                   /\ req'[h].ret.message = "You have already cleared this level."
      ]_vars

\* C1's case: a submission for a cleared puzzle was answered, and one of the
\* submitted answers would have been right.
C1_Witness ==
    \E h \in Handlers :
        /\ Done(h, "validate")
        /\ ClearedAtStart(h)
        /\ Get(req[h].ret, "status", "") = "info"
        /\ ~Mismatch(Doc(req[h].team_id).data_to_validate[PuzzleName(h)], req[h].data)

\* The expected data that validate read for h's puzzle.
Expected(h) == Get(req[h].team[1].data_to_validate, PuzzleName(h), <<>>)

\* Every expected field equals the submitted one once both are stripped.
AllMatch(expected, data) ==
    \A i \in 1..Len(expected) : Strip(data[expected[i].key]) = Strip(expected[i].value)

\* h's validate call has returned; its puzzle was issued and not cleared
\* and the submission held every expected key.
Evaluated(h) ==
    /\ Done(h, "validate")
    /\ Addressed(h)
    /\ ~IsNone(req[h].team)
    /\ ~ClearedAtStart(h)
    /\ Expected(h) # <<>>
    /\ FirstMissing(Expected(h), req[h].data) = 0

\* C2: a validate call on an issued, uncleared puzzle returns success with
\* points_awarded = P and total_score = total before + P, raises the stored
\* total by P and clears the puzzle, when every submitted field matches;
\* otherwise it returns failure with penalty_points = N and total_score =
\* total before - N, lowers the stored total by N and leaves the puzzle
\* uncleared.
C2_ScoreArithmetic ==
    \A h \in Handlers :
        Evaluated(h) =>
            LET before == req[h].pre[1]
                now    == Doc(req[h].team_id)
                ret    == req[h].ret
                P      == PuzzleClass(h).points
                N      == PuzzleClass(h).penalty
            IN  IF AllMatch(Expected(h), req[h].data)
                THEN /\ Get(ret, "status", "") = "success"
                     /\ ret.points_awarded = P
                     /\ ret.total_score = before.total_points + P
                     /\ now.total_points = before.total_points + P
                     /\ InList(PuzzleName(h), now.cleared_challenges)
                ELSE /\ Get(ret, "status", "") = "failure"
                     /\ ret.penalty_points = N
                     /\ ret.total_score = before.total_points - N
                     /\ now.total_points = before.total_points - N
                     /\ ~InList(PuzzleName(h), now.cleared_challenges)

\* C2's case: a padded right answer is accepted after a wrong one was
\* penalised (the resubmission was still evaluated).
C2_Witness ==
    \E h \in Handlers :
        /\ Evaluated(h)
        /\ req[h].ret.status = "success"
        /\ Get(req[h].pre[1].incorrect_attempts, PuzzleName(h), 0) = 1
        /\ req[h].ret.total_score = PuzzleClass(h).points - PuzzleClass(h).penalty
        /\ req[h].data = [flag |-> <<32, 55, 107, 10>>]

\* h's get_hint call has returned; its puzzle was not cleared when it arrived.
HintAnswered(h) == Done(h, "get_hint") /\ Addressed(h) /\ ~ClearedAtStart(h)

\* hints[p] when h's request arrived.
Taken(h) == Get(req[h].pre[1].hints, PuzzleName(h), 0)

\* C3: get_hint for a hint number in range but beyond the next one returns
\* the status "failure" order message without a hint, and total_points,
\* points[p] and hints[p] stay as they were.
C3_NoSkipAhead ==
    \A h \in Handlers :
        ( /\ HintAnswered(h)
          /\ 1 <= req[h].hint_no
          /\ req[h].hint_no <= Len(PuzzleClass(h).hints)
          /\ req[h].hint_no > Taken(h) + 1 )
        => LET before == req[h].pre[1]
               now    == Doc(req[h].team_id)
               p      == PuzzleName(h)
           IN  /\ Get(req[h].ret, "status", "") = "failure"
               /\ req[h].ret.message =
                     <<"Hint request must follow sequential order.Middle hints cannot be requested.">>
               /\ "hint" \notin DOMAIN req[h].ret
               /\ now.total_points = before.total_points
               /\ Get(now.points, p, 0) = Get(before.points, p, 0)
               /\ Get(now.hints, p, 0) = Get(before.hints, p, 0)

\* C3's case: hint 3 is refused to a team that has bought hint 1 only.
C3_Witness ==
    \E h \in Handlers :
        /\ HintAnswered(h)
        /\ req[h].hint_no = 3
        /\ Taken(h) = 1
        /\ Get(req[h].ret, "status", "") = "failure"

RECURSIVE HintCosts(_, _)
\* The cost of hints 1..k of a generator.
HintCosts(cls, k) == IF k = 0 THEN 0 ELSE HintCosts(cls, k - 1) + cls.hints[k][1]

\* points[p] is the reward for each clearing, less the penalty for each
\* wrong submission, less the cost of each hint taken, counted once.
PaidOnce(doc, cls) ==
    LET p == cls.name
    IN  Get(doc.points, p, 0) =
            cls.points * Count(doc.cleared_challenges, p)
            - cls.penalty * (Get(doc.incorrect_attempts, p, 0) - Get(doc.hints, p, 0))
            - HintCosts(cls, Get(doc.hints, p, 0))

\* C4: get_hint for the next hint k = hints[p] + 1 returns hint k's text,
\* hint_cost = cost_k and total_score = total before - cost_k; total_points
\* and points[p] fall by cost_k, hints[p], total_attempts[p] and
\* incorrect_attempts[p] rise by 1, nothing is cleared; and whenever every
\* call has returned, each hint taken so far has been paid for once.
C4_NextHint ==
    /\ \A h \in Handlers :
        ( /\ HintAnswered(h)
          /\ req[h].hint_no = Taken(h) + 1
          /\ req[h].hint_no <= Len(PuzzleClass(h).hints) )
        => LET before == req[h].pre[1]
               now    == Doc(req[h].team_id)
               p      == PuzzleName(h)
               cost   == PuzzleClass(h).hints[req[h].hint_no][1]
               ret    == req[h].ret
           IN  /\ Get(ret, "hint", "") = PuzzleClass(h).hints[req[h].hint_no][2]
               /\ ret.hint_no = req[h].hint_no
               /\ ret.hint_cost = cost
               /\ ret.total_score = before.total_points - cost
               /\ Scores(now, p) =
                     <<before.total_points - cost,
                       Get(before.points, p, 0) - cost,
                       Taken(h) + 1,
                       Get(before.total_attempts, p, 0) + 1,
                       Get(before.incorrect_attempts, p, 0) + 1>>
               /\ now.cleared_challenges = before.cleared_challenges
    /\ (\A h \in Handlers : ~Running(h)) =>
          \A i \in 1..Len(teams) : \A id \in DOMAIN challenges_classes :
              PaidOnce(teams[i], challenges_classes[id])

\* C4's case: hints 1, 2 and 3 were bought in order, for 30 + 20 + 10 points.
C4_Witness ==
    \E h \in Handlers :
        /\ HintAnswered(h)
        /\ req[h].hint_no = 3
        /\ Taken(h) = 2
        /\ Get(req[h].ret, "hint", "") = "third"
        /\ Doc(req[h].team_id).total_points = 0 - 60

\* C5: get_hint for a hint already paid for (k <= hints[p]) updates nothing
\* in the store and returns hint k's text without a hint_cost field, with
\* total_score = the stored total_points.
C5_PaidHintIsFree ==
    [][\A h \in Handlers :
          ( /\ req[h].op = "get_hint"
            /\ Running(h)
            /\ Addressed(h)
            /\ ~ClearedAtStart(h)
            /\ 1 <= req[h].hint_no
            /\ req[h].hint_no <= Taken(h)
            /\ req'[h] # req[h] )
          => /\ teams' = teams
             /\ req'[h].pc = "done" =>
                   /\ Get(req'[h].ret, "hint", "") = PuzzleClass(h).hints[req[h].hint_no][2]
                   /\ "hint_cost" \notin DOMAIN req'[h].ret
                   /\ req'[h].ret.total_score = Doc(req[h].team_id).total_points
      ]_vars

\* C5's case: hint 1 (cost 200) was bought once and then asked for twice
\* more; the total is still the baseline less 200.
C5_Witness ==
    \E h \in Handlers :
        /\ HintAnswered(h)
        /\ req[h].hint_no = 1
        /\ Taken(h) = 1
        /\ PuzzleName(h) = "NeedleInTheHaystack"
        /\ req[h].ret = [challenge_id |-> "2", challenge_name |-> "NeedleInTheHaystack",
                         status |-> "sucess", hint_no |-> 1,
                         hint |-> "Extract all the strings", total_score |-> 0 - 200]
        /\ req[h].prev = <<>>
        /\ nreq = 3
        /\ Doc(req[h].team_id).total_attempts = [NeedleInTheHaystack |-> 1]

\* h's generate_all_question call has returned its question list.
Generated(h) == Done(h, "generate_all_question") /\ ~Raised(req[h].ret)

\* C6: a generate_all_question call that starts after an earlier one for
\* the same team has returned, returns the same payload for every puzzle.
C6_SameQuestions ==
    \A h \in Handlers :
        (Generated(h) /\ req[h].prev # <<>>) => req[h].ret.questions = req[h].prev[1]

\* C7: once generate_all_question has returned for a team, questions[p] and
\* data_to_validate[p] are stored for every registered puzzle p.
C7_AllIssued ==
    \A h \in Handlers :
        Generated(h) =>
            \A id \in DOMAIN challenges_id :
                /\ challenges_id[id] \in DOMAIN Doc(req[h].team_id).questions
                /\ challenges_id[id] \in DOMAIN Doc(req[h].team_id).data_to_validate

\* C8: in every state, every team's total_points is the sum of its points[*].
C8_TotalIsSum ==
    \A i \in 1..Len(teams) : teams[i].total_points = SumValues(teams[i].points)

\* C8's case: the team has scores on two puzzles, the second from a hint
\* whose score update is applied while its hint count is not yet.
C8_Witness ==
    \E h \in Handlers :
        /\ req[h].pc = "uh_inc"
        /\ DOMAIN Doc(req[h].team_id).points = {"Base69", "NeedleInTheHaystack"}
        /\ Doc(req[h].team_id).points["Base69"] # 0
        /\ Doc(req[h].team_id).total_points
              # Doc(req[h].team_id).points["NeedleInTheHaystack"]

\* C9: no puzzle name occurs twice in a team's cleared_challenges.
C9_ClearedOnce ==
    \A i \in 1..Len(teams) : \A id \in DOMAIN challenges_id :
        Count(teams[i].cleared_challenges, challenges_id[id]) <= 1

\* The completed update_score calls for (team_id, p): their signed deltas
\* and their number.
Applied(team_id, p) == Get(applied, <<team_id, p>>, [sum |-> 0, calls |-> 0])

RECURSIVE AppliedSum(_, _)
AppliedSum(team_id, ids) ==
    IF ids = {} THEN 0
    ELSE LET id == CHOOSE x \in ids : TRUE
         IN  Applied(team_id, challenges_id[id]).sum + AppliedSum(team_id, ids \ {id})

\* C10: whatever the interleaving, total_points and points[p] are the sums
\* of the signed deltas of the completed update_score calls, and
\* total_attempts[p] is their number: no update is lost.
C10_NoLostUpdate ==
    \A i \in 1..Len(teams) :
        LET doc == teams[i]
        IN  /\ doc.total_points = AppliedSum(doc.team_id, DOMAIN challenges_id)
            /\ \A id \in DOMAIN challenges_id :
                  LET p == challenges_id[id]
                  IN  /\ Get(doc.points, p, 0) = Applied(doc.team_id, p).sum
                      /\ Get(doc.total_attempts, p, 0) = Applied(doc.team_id, p).calls

\* C10's case: two calls for the same team and puzzle have both updated the
\* score, and each update_score read the team before the other one wrote.
C10_Witness ==
    \E h \in Handlers : \E g \in Handlers \ {h} :
        /\ req[h].pc = "done" /\ req[g].pc = "done"
        /\ req[h].plan.next # "return" /\ req[g].plan.next # "return"
        /\ req[h].team_id = req[g].team_id
        /\ req[h].challenge_id = req[g].challenge_id
        /\ req[h].us_team # <<>>
        /\ req[h].us_team = req[g].us_team
        /\ Applied(req[h].team_id, PuzzleName(h)).calls = 2
        /\ req[h].op = "validate" /\ req[g].op = "get_hint"

\* points[p], hints[p], total_attempts[p], incorrect_attempts[p]
PuzzleScores(doc, p) ==
    <<Get(doc.points, p, 0), Get(doc.hints, p, 0),
      Get(doc.total_attempts, p, 0), Get(doc.incorrect_attempts, p, 0)>>

\* C11: from the moment a puzzle is in a team's cleared_challenges, no step
\* of any request changes the team's points[p], hints[p], total_attempts[p]
\* or incorrect_attempts[p], whatever the interleaving.
C11_ClearedIsTerminal ==
    [][\A i \in 1..Len(teams) : \A id \in DOMAIN challenges_id :
          InList(challenges_id[id], teams[i].cleared_challenges)
          => PuzzleScores(teams'[i], challenges_id[id])
                = PuzzleScores(teams[i], challenges_id[id])
      ]_vars

\* The document that h's validate or get_hint call read (line 163 / 273).
Read(h) == req[h].team[1]

\* h and g have both returned from get_hint for the same team, puzzle and
\* hint number k, and both had read hints[p] = k - 1.
SameNextHint(h, g) ==
    /\ h # g
    /\ Done(h, "get_hint") /\ Done(g, "get_hint")
    /\ Addressed(h) /\ Addressed(g)
    /\ req[h].team_id = req[g].team_id
    /\ req[h].challenge_id = req[g].challenge_id
    /\ req[h].hint_no = req[g].hint_no
    /\ ~IsNone(req[h].team) /\ ~IsNone(req[g].team)
    /\ ~AlreadyCleared(Read(h), PuzzleName(h))
    /\ ~AlreadyCleared(Read(g), PuzzleName(g))
    /\ 1 <= req[h].hint_no /\ req[h].hint_no <= Len(PuzzleClass(h).hints)
    /\ Get(Read(h).hints, PuzzleName(h), 0) = req[h].hint_no - 1
    /\ Get(Read(g).hints, PuzzleName(g), 0) = req[g].hint_no - 1

\* C12: when two concurrent get_hint calls for the same team, puzzle and
\* next hint number k have both returned, hints[p] is k (it rose by one)
\* and the cost of hint k was taken once from points[p] and total_points,
\* counted from the document that the later of the two calls read.
C12_HintChargedOnce ==
    \A h \in Handlers : \A g \in Handlers :
        SameNextHint(h, g) =>
            LET now  == Doc(req[h].team_id)
                p    == PuzzleName(h)
                cost == PuzzleClass(h).hints[req[h].hint_no][1]
            IN  /\ Get(now.hints, p, 0) = req[h].hint_no
                /\ \E x \in {h, g} :
                      /\ Get(now.points, p, 0) = Get(Read(x).points, p, 0) - cost
                      /\ now.total_points = Read(x).total_points - cost

\* C13: in every state, also between two store operations of a handler,
\* the hint costs deducted from points[p] are those of the hints counted
\* in hints[p]: no cost is deducted while hints[p] is not incremented.
C13_HintAtomic ==
    \A i \in 1..Len(teams) : \A id \in DOMAIN challenges_classes :
        PaidOnce(teams[i], challenges_classes[id])

\* h and g have both returned success from validate for the same team and
\* puzzle, and both had read the team with the puzzle not cleared.
BothAwarded(h, g) ==
    /\ h # g
    /\ Done(h, "validate") /\ Done(g, "validate")
    /\ Addressed(h) /\ Addressed(g)
    /\ req[h].team_id = req[g].team_id
    /\ req[h].challenge_id = req[g].challenge_id
    /\ ~IsNone(req[h].team) /\ ~IsNone(req[g].team)
    /\ ~AlreadyCleared(Read(h), PuzzleName(h))
    /\ ~AlreadyCleared(Read(g), PuzzleName(g))
    /\ Get(req[h].ret, "status", "") = "success"
    /\ Get(req[g].ret, "status", "") = "success"

\* C14: when two concurrent validate calls with correct answers for the
\* same team and uncleared puzzle have both read the team as not cleared
\* and both returned success, both awards were applied: total_points and
\* points[p] are 2*P above what the later of the two calls read, and the
\* puzzle is in cleared_challenges twice.
C14_DoubleAward ==
    \A h \in Handlers : \A g \in Handlers :
        BothAwarded(h, g) =>
            LET now == Doc(req[h].team_id)
                p   == PuzzleName(h)
                P   == PuzzleClass(h).points
            IN  /\ Count(now.cleared_challenges, p) = 2
                /\ Applied(req[h].team_id, p).calls >= 2
                /\ \E x \in {h, g} :
                      /\ now.total_points = Read(x).total_points + 2 * P
                      /\ Get(now.points, p, 0) = Get(Read(x).points, p, 0) + 2 * P

\* C14's case: two validate calls for Base69 both read the team uncleared
\* at a total of 0, both returned success with total_score 200, and the
\* stored total is 400.
C14_Witness ==
    \E h \in Handlers : \E g \in Handlers :
        /\ BothAwarded(h, g)
        /\ PuzzleName(h) = "Base69"
        /\ req[h].ret.total_score = 200 /\ req[g].ret.total_score = 200
        /\ Doc(req[h].team_id).total_points = 400

\* C15: in every state and for every team and puzzle, questions[p] is
\* stored if and only if data_to_validate[p] is stored.
C15_StoredTogether ==
    \A i \in 1..Len(teams) : \A id \in DOMAIN challenges_id :
        challenges_id[id] \in DOMAIN teams[i].questions
        <=> challenges_id[id] \in DOMAIN teams[i].data_to_validate

\* C15's case: a team holds the content of Base69 (its non-awaited update
\* was applied) and of a file puzzle (written through get_file_location).
C15_Witness ==
    \E i \in 1..Len(teams) :
        /\ DOMAIN teams[i].questions = {"Base69", "NeedleInTheHaystack"}
        /\ DOMAIN teams[i].data_to_validate = {"Base69", "NeedleInTheHaystack"}
        /\ teams[i].data_to_validate["Base69"] # <<>>
        /\ teams[i].data_to_validate["NeedleInTheHaystack"] # <<>>

\* C16: once questions[p] and data_to_validate[p] of a team are stored, no
\* step of any operation changes them (a second generation for the pair
\* would store its own content).
C16_WrittenOnce ==
    [][\A i \in 1..Len(teams) : \A id \in DOMAIN challenges_id :
          LET p == challenges_id[id]
          IN  ( /\ p \in DOMAIN teams[i].questions
                /\ p \in DOMAIN teams[i].data_to_validate )
              => /\ p \in DOMAIN teams'[i].questions
                 /\ p \in DOMAIN teams'[i].data_to_validate
                 /\ teams'[i].questions[p] = teams[i].questions[p]
                 /\ teams'[i].data_to_validate[p] = teams[i].data_to_validate[p]
      ]_vars

\* C17: when every request has completed, the expected answer stored for a
\* file puzzle is the answer embedded in the artifact found at the stored
\* location, however the first generations for the pair interleaved.
C17_OneVariant ==
    (\A h \in Handlers : ~Running(h)) =>
        \A i \in 1..Len(teams) : \A id \in DOMAIN challenges_classes :
            LET cls == challenges_classes[id]
                doc == teams[i]
            IN  ( /\ cls.kind = "file"
                  /\ cls.name \in DOMAIN doc.questions
                  /\ cls.name \in DOMAIN doc.data_to_validate )
                => /\ doc.questions[cls.name].location \in DOMAIN files
                   /\ doc.data_to_validate[cls.name][1].value
                         = files[doc.questions[cls.name].location]

\* d2 is d with key p of field f raised by n and the field's other keys kept.
RaisedBy(d2, d, f, p, n) ==
    /\ Get(d2[f], p, 0) = Get(d[f], p, 0) + n
    /\ \A k \in (DOMAIN d[f] \cup DOMAIN d2[f]) \ {p} :
          k \in DOMAIN d[f] /\ k \in DOMAIN d2[f] /\ d2[f][k] = d[f][k]

\* C18: the update of an update_score(t, is_correct, points, p) call on an
\* existing team changes points[p] and total_points by +points if
\* is_correct else -points, total_attempts[p] by 1, incorrect_attempts[p]
\* by 1 iff not is_correct, and iff is_correct appends p to
\* cleared_challenges and sets time[p]; hints, questions, data_to_validate,
\* team_id, team_name, every other key and every other team stay the same.
C18_UpdateScoreFrame ==
    [][\A h \in Handlers :
          (req[h].pc = "us_write" /\ req'[h] # req[h]
             /\ is_team_exists(teams, req[h].team_id))
          => LET i  == Match(teams, req[h].team_id)
                 d  == teams[i]
                 d2 == teams'[i]
                 p  == challenges_id[req[h].challenge_id]
                 ok == req[h].plan.is_correct
                 n  == IF ok THEN req[h].plan.points ELSE 0 - req[h].plan.points
             IN  /\ Len(teams') = Len(teams)
                 /\ \A j \in (1..Len(teams)) \ {i} : teams'[j] = teams[j]
                 /\ DOMAIN d2 = DOMAIN d
                 /\ RaisedBy(d2, d, "points", p, n)
                 /\ d2.total_points = d.total_points + n
                 /\ RaisedBy(d2, d, "total_attempts", p, 1)
                 /\ RaisedBy(d2, d, "incorrect_attempts", p, IF ok THEN 0 ELSE 1)
                 /\ d2.cleared_challenges =
                       IF ok THEN Append(d.cleared_challenges, p)
                       ELSE d.cleared_challenges
                 /\ IF ok
                    THEN /\ p \in DOMAIN d2.time
                         /\ \A k \in (DOMAIN d.time \cup DOMAIN d2.time) \ {p} :
                               k \in DOMAIN d.time /\ k \in DOMAIN d2.time
                               /\ d2.time[k] = d.time[k]
                    ELSE d2.time = d.time
                 /\ d2.hints = d.hints
                 /\ d2.questions = d.questions
                 /\ d2.data_to_validate = d.data_to_validate
                 /\ d2.team_id = d.team_id
                 /\ d2.team_name = d.team_name
                 /\ d2.team_no = d.team_no
      ]_vars

\* C18's case: update_score has run with is_correct false and then with
\* is_correct true for a puzzle, the team holding a paid hint of another
\* puzzle and stored questions.
C18_Witness ==
    \E i \in 1..Len(teams) :
        /\ teams[i].cleared_challenges = <<"NeedleInTheHaystack">>
        /\ teams[i].incorrect_attempts["NeedleInTheHaystack"] = 1
        /\ teams[i].total_attempts["NeedleInTheHaystack"] = 2
        /\ teams[i].points["NeedleInTheHaystack"] = 400 - 50
        /\ "NeedleInTheHaystack" \in DOMAIN teams[i].time
        /\ Get(teams[i].hints, "ThreeHints", 0) = 1
        /\ teams[i].total_points = 400 - 50 - 30
        /\ "NeedleInTheHaystack" \in DOMAIN teams[i].questions

\* h's validate call is about to get the team it asked for (line 163): the
\* team exists, the puzzle is registered and not cleared in the stored
\* document.
ValidateReads(h) ==
    /\ req[h].op = "validate"
    /\ req[h].pc = "get_team"
    /\ req'[h] # req[h]
    /\ is_team_exists(teams, req[h].team_id)
    /\ req[h].challenge_id \in DOMAIN challenges_id
    /\ ~AlreadyCleared(Doc(req[h].team_id), challenges_id[req[h].challenge_id])

\* The validation data stored for h's puzzle, <<>> when there is none.
StoredExpected(h) ==
    Get(Doc(req[h].team_id).data_to_validate, challenges_id[req[h].challenge_id], <<>>)

\* The error validate raises when no validation data is stored.
ValidationDataMissing ==
    HTTPException(500,
        "Data validation information is missing. Please make a GET request to /question to retrieve the necessary data.")

\* C19: validate for an existing team and a registered, uncleared puzzle
\* with no stored data_to_validate[p] raises the validation-data-missing
\* error whatever was submitted and calls no store update: the team
\* documents stay as they are.
C19_NoDataNoScore ==
    [][\A h \in Handlers :
          (ValidateReads(h) /\ StoredExpected(h) = <<>>)
          => /\ req'[h].pc = "done"
             /\ req'[h].ret = ValidationDataMissing
             /\ teams' = teams
      ]_vars

\* C19's case: a flag was submitted for a file puzzle whose content is not
\* stored; the call failed with the error and no attempt or score is
\* recorded.
C19_Witness ==
    \E h \in Handlers :
        /\ Done(h, "validate")
        /\ req[h].ret = ValidationDataMissing
        /\ PuzzleName(h) = "NeedleInTheHaystack"
        /\ req[h].data = [flag |-> <<55, 107>>]
        /\ Doc(req[h].team_id).total_attempts = EmptyDict
        /\ Doc(req[h].team_id).points = EmptyDict

\* The expected keys, in the stored order, that a submission lacks.
MissingKeys(expected, data) ==
    SelectSeq([i \in 1..Len(expected) |-> expected[i].key],
              LAMBDA k : k \notin DOMAIN data)

\* C20: validate for an issued, uncleared puzzle with a submission that
\* lacks an expected key raises the missing-parameter error that names the
\* first such key in the stored key order, and calls no store update (no
\* penalty, attempt or clearing), also when the fields present are wrong.
C20_MissingParameter ==
    [][\A h \in Handlers :
          ( /\ ValidateReads(h)
            /\ StoredExpected(h) # <<>>
            /\ MissingKeys(StoredExpected(h), req[h].data) # <<>> )
          => /\ req'[h].pc = "done"
             /\ req'[h].ret =
                   HTTPException(422,
                      <<"Missing required parameter: ",
                        Head(MissingKeys(StoredExpected(h), req[h].data))>>)
             /\ teams' = teams
      ]_vars

\* C20's case: a Base69 submission lacking both expected keys was refused
\* naming encoded_string, the first of them, and the team has no attempts.
C20_Witness ==
    \E h \in Handlers :
        /\ Done(h, "validate")
        /\ PuzzleName(h) = "Base69"
        /\ req[h].data = [other |-> <<88>>]
        /\ req[h].ret = HTTPException(422, <<"Missing required parameter: ", "encoded_string">>)
        /\ Doc(req[h].team_id).total_attempts = EmptyDict
        /\ Doc(req[h].team_id).total_points = 0

---------------------------------------------------------------------------
(* Requests with bad parameters.                                           *)

\* Requests started in one behaviour of ErrSpec.
MaxErr == 3

\* Team ids of a request: absent, unknown ("T9"), or the existing team.
ErrTeams == {None, "T9", "T1"}

\* Challenge ids of a request: absent, not registered ("9"), or registered.
ErrChallenges == {None, "9", "1", "2", "3"}

\* Hint numbers of a request, below, inside and above the range of a class
\* with no, one or three hints.
ErrHints == {-1, 0, 1, 2, 4}

\* Requests of ErrSpec against RoundN: every operation with every
\* combination of absent, unknown and valid ids; get_hint for the existing
\* team with every hint number of ErrHints.
ErrRequests ==
    {Request("generate_all_question", t, None, 0, EmptyDict) : t \in ErrTeams}
    \cup {Request("validate", t, c, 0, [flag |-> <<55, 107>>]) :
             t \in ErrTeams, c \in ErrChallenges \ {"1", "3"}}
    \cup {Request("get_file_location", t, c, 0, EmptyDict) :
             t \in ErrTeams, c \in ErrChallenges \ {"3"}}
    \cup {Request("get_hint", t, c, 1, EmptyDict) :
             t \in ErrTeams \ {"T1"}, c \in {None, "9", "2"}}
    \cup {Request("get_hint", "T1", c, k, EmptyDict) :
             c \in ErrChallenges, k \in ErrHints}

ErrInit == InitWith(RoundN, <<"T1">>)

ErrNext == NextWith({"h1"}, ErrRequests, TRUE, MaxErr)

\* Requests with absent, unknown and out-of-range parameters, one at a time.
ErrSpec == ErrInit /\ [][ErrNext]_vars

\* The error that the id checks owe to h's request, EmptyDict when its ids
\* are good: the team id is looked at first, then the challenge id (not
\* for generate_all_question, which has none).
IdError(h) ==
    IF req[h].team_id = None
    THEN HTTPException(422, "team_id parameter missing.")
    ELSE IF \A i \in 1..Len(teams) : teams[i].team_id # req[h].team_id
    THEN HTTPException(400, "team_id invalid")
    ELSE IF req[h].op = "generate_all_question"
    THEN EmptyDict
    ELSE IF req[h].challenge_id = None
    THEN HTTPException(422, "challenge_id parameter missing.")
    ELSE IF req[h].challenge_id \notin DOMAIN challenges_id
    THEN HTTPException(400, "challenge_id invalid")
    ELSE EmptyDict

\* C21: every operation checks its ids before anything else: an absent
\* team id gives the missing-parameter error, an unknown one the
\* invalid-team error, then (but for generate_all_question) an absent
\* challenge id the missing-parameter error and an unregistered one the
\* invalid-challenge error; the team error wins when both ids are bad.  A
\* request that fails so ends at its first step and changes neither the
\* store nor the files, and issues no write.
C21_IdsCheckedFirst ==
    [][\A h \in Handlers :
          (req[h].pc = "exists" /\ req'[h] # req[h])
          => IF Raised(IdError(h))
             THEN /\ req'[h].pc = "done"
                  /\ req'[h].ret = IdError(h)
                  /\ teams' = teams /\ files' = files /\ pending' = pending
             ELSE ~(req'[h].pc = "done" /\ Raised(req'[h].ret)
                    /\ req'[h].ret.detail \in
                          {"team_id parameter missing.", "team_id invalid",
                           "challenge_id parameter missing.", "challenge_id invalid"})
      ]_vars

\* C21's case: a submission naming an unknown team and an unregistered
\* challenge was refused with the team error, after a request of the
\* existing team had issued a write.
C21_Witness ==
    \E h \in Handlers :
        /\ Done(h, "validate")
        /\ req[h].team_id = "T9" /\ req[h].challenge_id = "9"
        /\ req[h].ret = HTTPException(400, "team_id invalid")
        /\ pending # EmptyBag
        /\ Len(teams) = 1

\* h's get_hint call is about to get the team it asked for (line 273): the
\* puzzle is not cleared in the stored document.
HintReads(h) ==
    /\ req[h].op = "get_hint"
    /\ req[h].pc = "get_team"
    /\ req'[h] # req[h]
    /\ ~AlreadyCleared(Doc(req[h].team_id), challenges_id[req[h].challenge_id])

\* C22: get_hint for an uncleared puzzle with n hints and a hint number
\* k < 1 or k > n raises the invalid-hint-number error, with the no-hints
\* message when n = 0, the only-one-hint message when n = 1 and the
\* between-1-and-n message otherwise; the response holds no hint and no
\* store update is made.
C22_HintOutOfRange ==
    [][\A h \in Handlers :
          LET n == Len(challenges_classes[req[h].challenge_id].hints)
              k == req[h].hint_no
          IN  (HintReads(h) /\ (k < 1 \/ k > n))
              => /\ req'[h].pc = "done"
                 /\ req'[h].ret.exception = "HTTPException"
                 /\ req'[h].ret.status_code = 400
                 /\ req'[h].ret.detail =
                       CASE n = 0 -> "No hints available for this level."
                         [] n = 1 -> "There is only one hint available for this level."
                         [] OTHER -> <<"Invalid hint number. ",
                                       "Please provide a hint number between 1 and ",
                                       n, ".">>
                 /\ "hint" \notin DOMAIN req'[h].ret
                 /\ teams' = teams /\ files' = files /\ pending' = pending
      ]_vars

\* C22's case: hint 4 of a puzzle with three hints was refused with the
\* between-1-and-3 message, the team having bought hint 1 before.
C22_Witness ==
    \E h \in Handlers :
        /\ Done(h, "get_hint")
        /\ Addressed(h)
        /\ PuzzleName(h) = "ThreeHints"
        /\ req[h].hint_no = 4
        /\ req[h].ret = HTTPException(400,
              <<"Invalid hint number. ", "Please provide a hint number between 1 and ",
                3, ".">>)
        /\ Get(Doc(req[h].team_id).hints, "ThreeHints", 0) = 1

\* C23: get_file_location checks team and puzzle first; with good ids, for
\* a generator without get_file_location (Base69) it ends at once with the
\* no-file error and changes nothing, and for any other generator what it
\* returns is the generator's path for the team.
C23_FileLocation ==
    [][\A h \in Handlers :
          ( /\ req[h].op = "get_file_location"
            /\ Running(h)
            /\ req'[h] # req[h]
            /\ ~Raised(IdError(h)) )
          => IF challenges_classes[req[h].challenge_id].kind = "Base69"
             THEN /\ req'[h].pc = "done"
                  /\ req'[h].ret =
                        HTTPException(400, "The given level doesnot have any files.")
                  /\ teams' = teams /\ files' = files /\ pending' = pending
             ELSE req'[h].pc = "done" =>
                     req'[h].ret =
                        [location |-> <<challenges_id[req[h].challenge_id], req[h].team_id>>]
      ]_vars

\* C23's case: a call for Base69 was refused with the no-file error, after
\* the artifact of a file puzzle had been generated and stored.
C23_Witness ==
    \E h \in Handlers :
        /\ Done(h, "get_file_location")
        /\ req[h].challenge_id = "1"
        /\ req[h].ret = HTTPException(400, "The given level doesnot have any files.")
        /\ req[h].team_id = "T1"
        /\ <<"NeedleInTheHaystack", "T1">> \in DOMAIN files
        /\ "NeedleInTheHaystack" \in DOMAIN Doc("T1").questions

---------------------------------------------------------------------------
(* Direct calls of the Database methods.                                   *)

\* Calls started in one behaviour of StoreSpec.
MaxStore == 3

\* A call of create_team, update_score or update_hint_score.
StoreCall(op, team_id, team_name, challenge_id, is_correct, points) ==
    [op |-> op, team_id |-> team_id, team_name |-> team_name,
     challenge_id |-> challenge_id, is_correct |-> is_correct, points |-> points]

\* Calls of StoreSpec: for the existing team "T1" and for "T2", which exists
\* only once create_team has inserted it.
StoreCalls ==
    {StoreCall("create_team", t, n, None, FALSE, 0) :
        t \in {"T1", "T2"}, n \in {None, "Osiris"}}
    \cup {StoreCall("update_score", t, None, "1", c, 200) :
             t \in {"T1", "T2"}, c \in BOOLEAN}
    \cup {StoreCall("update_hint_score", t, None, "2", FALSE, 200) : t \in {"T1", "T2"}}

\* A call arrives at the store.  create_team awaits count_documents (line
\* 67); update_score, also inside update_hint_score, awaits get_team (104).
CallStore(h, c, max) ==
    /\ ~Running(h)
    /\ nreq < max
    /\ nreq' = nreq + 1
    /\ req' = [req EXCEPT ![h] =
                 [IdleReq EXCEPT
                    !.pc = IF c.op = "create_team" THEN "ct_count" ELSE "us_read",
                    !.op = c.op, !.team_id = c.team_id, !.challenge_id = c.challenge_id,
                    !.data = [team_name |-> c.team_name],
                    !.plan = Plan(c.op, c.is_correct, c.points, EmptyDict),
                    !.pre = get_team(teams, c.team_id)]]
    /\ UNCHANGED <<teams, files, pending, challenges_id, challenges_classes, call,
                   applied, returned>>

\* create_team: count_documents answers (line 67); the document is built.
CtCount(h) ==
    LET q     == req[h]
        count == Len(teams)
        team_name == IF q.data.team_name = None THEN <<"Team - ", count>>
                     ELSE q.data.team_name
    IN  /\ q.pc = "ct_count"
        /\ req' = [req EXCEPT ![h].pc = "ct_insert",
                              ![h].write = NewTeam(count, q.team_id, team_name)]
        /\ UNCHANGED <<teams, files, pending, challenges_id, challenges_classes, call,
                       nreq, applied, returned>>

\* create_team: insert_one is applied (line 85); team_id is returned.
CtInsert(h) ==
    /\ req[h].pc = "ct_insert"
    /\ teams' = Append(teams, req[h].write)
    /\ Finish(h, [value |-> req[h].team_id])
    /\ UNCHANGED <<files, pending, challenges_id, challenges_classes, call,
                   nreq, applied, returned>>

StoreInit == InitWith(Round1, <<"T1">>)

StoreNext ==
    \/ \E h \in Handlers : \E c \in StoreCalls : CallStore(h, c, MaxStore)
    \/ \E h \in Handlers : CtCount(h)
    \/ \E h \in Handlers : CtInsert(h)
    \/ \E h \in Handlers : UsRead(h)
    \/ \E h \in Handlers : UsWrite(h)
    \/ \E h \in Handlers : UhInc(h)

\* Concurrent direct calls of the store's methods.
StoreSpec == StoreInit /\ [][StoreNext]_vars

\* C24: update_score, called directly or by update_hint_score, for a team
\* id without a record raises the team-not-found error; the call ends
\* there, no record is created and no field of any team changes (so no
\* hints counter is incremented).
C24_TeamNotFound ==
    [][\A h \in Handlers :
          ( /\ req[h].op \in {"update_score", "update_hint_score"}
            /\ Running(h)
            /\ req'[h] # req[h]
            /\ \A i \in 1..Len(teams) : teams[i].team_id # req[h].team_id )
          => /\ req'[h].pc = "done"
             /\ req'[h].ret = ValueError(<<"Team with ID ", req[h].team_id, " not found.">>)
             /\ teams' = teams
      ]_vars

\* C24's case: update_hint_score for a team without a record has raised,
\* while the other team had scores from an earlier call.
C24_Witness ==
    \E h \in Handlers :
        /\ Done(h, "update_hint_score")
        /\ req[h].team_id = "T2"
        /\ req[h].ret = ValueError(<<"Team with ID ", "T2", " not found.">>)
        /\ Len(teams) = 1
        /\ teams[1].total_points # 0
        /\ teams[1].hints = EmptyDict

\* C25: create_team for a team id that already has a record fails and
\* leaves the store as it is, so that no two records of the collection
\* have the same team_id.
C25_OneRecordPerTeam ==
    /\ \A h \in Handlers :
          (Done(h, "create_team") /\ ~IsNone(req[h].pre)) => Raised(req[h].ret)
    /\ \A i \in 1..Len(teams) : \A j \in 1..Len(teams) :
          teams[i].team_id = teams[j].team_id => i = j

---------------------------------------------------------------------------
(* Loading the registry: AllChallenges.__init__.                           *)

\* Puzzle modules (__init__.py files) found in the source directory.
MaxModules == 3

\* The abstract base class Challenge: a class that cannot be instantiated
\* (its constructor call raises TypeError).
AbstractChallenge ==
    [name |-> "Challenge", kind |-> "abstract", points |-> 0, penalty |-> 0,
     hints |-> <<>>, answer_key |-> ""]

\* getattr(module, class_name)() returns an instance.
Instantiable(cls) == cls.kind # "abstract"

\* The classes inspect.getmembers finds in one puzzle module.
ClassLists ==
    {<<>>, <<Base69>>, <<NeedleInTheHaystack>>, <<Base69, NeedleInTheHaystack>>,
     <<AbstractChallenge>>}

RECURSIVE ModuleLists(_)
\* The lists of at most n modules, in sorted path order.
ModuleLists(n) ==
    IF n = 0 THEN {<<>>}
    ELSE ModuleLists(n - 1)
         \cup {Append(ms, m) : ms \in {l \in ModuleLists(n - 1) : Len(l) = n - 1},
                               m \in ClassLists}

\* What app/challenges/<round> can be: no such directory, or its modules.
Sources ==
    {[exists |-> FALSE, modules |-> <<>>]}
    \cup {[exists |-> TRUE, modules |-> ms] : ms \in ModuleLists(MaxModules)}

\* script_dir.rglob("__init__.py") yielding the modules in the order
\* `order` of their positions: each with its path, numbered as paths sort.
Found(modules, order) ==
    [j \in 1..Len(modules) |-> [path |-> order[j], classes |-> modules[order[j]]]]

\* sorted(...) of line 60: the modules by ascending path.
sorted(found) ==
    [i \in 1..Len(found) |->
        found[CHOOSE j \in 1..Len(found) : found[j].path = i].classes]

RECURSIVE LoadedFrom(_, _)
\* The loop of lines 60-79 from module i on, as far as challenges_classes
\* goes: a module with other than one class raises ImportError, a class
\* that cannot be instantiated raises in line 75; lines 81-84 catch either:
\* the loop ends there and __init__ goes on to return.  The instances
\* registered, in order.
LoadedFrom(modules, i) ==
    IF i > Len(modules) THEN <<>>
    ELSE IF Len(modules[i]) # 1 THEN <<>>
    ELSE IF ~Instantiable(modules[i][1]) THEN <<>>
    ELSE <<modules[i][1]>> \o LoadedFrom(modules, i + 1)

RECURSIVE NamedFrom(_, _)
\* The same loop as far as challenges_id goes: line 74 stores the class
\* name before line 75 calls the constructor.
NamedFrom(modules, i) ==
    IF i > Len(modules) THEN <<>>
    ELSE IF Len(modules[i]) # 1 THEN <<>>
    ELSE IF ~Instantiable(modules[i][1]) THEN <<modules[i][1]>>
    ELSE <<modules[i][1]>> \o NamedFrom(modules, i + 1)

\* AllChallenges() is called on a source directory.
CallLoad(source) == [op |-> "AllChallenges", pc |-> "called", source |-> source]

LoadInit ==
    /\ teams = <<>>
    /\ files = EmptyDict
    /\ pending = EmptyBag
    /\ challenges_id = EmptyDict
    /\ challenges_classes = EmptyDict
    /\ req = [h \in Handlers |-> IdleReq]
    /\ nreq = 0
    /\ applied = EmptyDict
    /\ returned = EmptyDict
    /\ call \in {CallLoad(source) : source \in Sources}

\* AllChallenges.__init__ runs: KeyboardInterrupt when the directory does
\* not exist (lines 55-57), else the registry is filled as far as the loop
\* gets and __init__ returns.
Load ==
    /\ call.op = "AllChallenges"
    /\ call.pc = "called"
    /\ IF ~call.source.exists
       THEN /\ call' = [call EXCEPT !.pc = "raised"] @@ [exception |-> "KeyboardInterrupt"]
            /\ UNCHANGED <<challenges_id, challenges_classes>>
       ELSE \E order \in Permutations(1..Len(call.source.modules)) :
               LET modules == sorted(Found(call.source.modules, order))
               IN  /\ call' = [call EXCEPT !.pc = "returned"] @@ [found |-> order]
                   /\ challenges_id' = LoadIds(NamedFrom(modules, 1))
                   /\ challenges_classes' = LoadClasses(LoadedFrom(modules, 1))
    /\ UNCHANGED <<teams, files, pending, req, nreq, applied, returned>>

LoadNext == Load

\* The registry is loaded from one of the source directories.
LoadSpec == LoadInit /\ [][LoadNext]_vars

\* C26: AllChallenges.__init__ returns only with a complete registry: the
\* source directory exists, holds at least one puzzle module, every module
\* yields exactly one class, and the registry has one entry per module.
C26_LoadAllOrFail ==
    (call.op = "AllChallenges" /\ call.pc = "returned")
    => /\ call.source.exists
       /\ call.source.modules # <<>>
       /\ \A i \in 1..Len(call.source.modules) : Len(call.source.modules[i]) = 1
       /\ Cardinality(DOMAIN challenges_id) = Len(call.source.modules)
       /\ DOMAIN challenges_classes = DOMAIN challenges_id

---------------------------------------------------------------------------
(* Database.get_nested_value.                                              *)

\* Segments of a dotted path.
MaxPath == 2

\* A value that is not a dict, and a dict, told apart as isinstance does.
Leaf(v) == [dict |-> FALSE, v |-> v, items |-> EmptyDict]

Mapping(items) == [dict |-> TRUE, v |-> "", items |-> items]

\* Keys of the mappings and segments of the paths.
Keys == {"a", "b"}

\* The mappings from some of the Keys to the given values.
MappingsTo(values) ==
    UNION {{Mapping(f) : f \in [ks -> values]} : ks \in SUBSET Keys}

Leaves == {Leaf("x"), Leaf("y")}

\* JSON-like values nested at most twice.
Records == MappingsTo(Leaves \cup MappingsTo(Leaves))

\* path.split("."): one to MaxPath segments.
Paths == UNION {[1..n -> Keys] : n \in 1..MaxPath}

\* Defaults: None, a string, and mappings.
Defaults ==
    {Leaf(None), Leaf("d"), Mapping(EmptyDict), Mapping([b |-> Leaf("in default")])}

RECURSIVE NestedFrom(_, _, _, _)
\* The loop of lines 155-159 from segment i on.
NestedFrom(json_data, path, i, default) ==
    IF i > Len(path) THEN json_data
    ELSE IF json_data.dict
         THEN NestedFrom(Get(json_data.items, path[i], default), path, i + 1, default)
         ELSE default

get_nested_value(json_data, path, default) == NestedFrom(json_data, path, 1, default)

NestedInit ==
    /\ teams = <<>>
    /\ files = EmptyDict
    /\ pending = EmptyBag
    /\ challenges_id = EmptyDict
    /\ challenges_classes = EmptyDict
    /\ req = [h \in Handlers |-> IdleReq]
    /\ nreq = 0
    /\ applied = EmptyDict
    /\ returned = EmptyDict
    /\ call \in {[op |-> "get_nested_value", pc |-> "called", json_data |-> r,
                  path |-> p, default |-> d, result |-> Leaf(None)] :
                    r \in Records, p \in Paths, d \in Defaults}

\* get_nested_value runs and returns.
NestedCall ==
    /\ call.op = "get_nested_value"
    /\ call.pc = "called"
    /\ call' = [call EXCEPT
                  !.pc = "returned",
                  !.result = get_nested_value(call.json_data, call.path, call.default)]
    /\ UNCHANGED <<teams, files, pending, challenges_id, challenges_classes,
                   req, nreq, applied, returned>>

NestedNext == NestedCall

\* get_nested_value on a record, a path and a default.
NestedSpec == NestedInit /\ [][NestedNext]_vars

RECURSIVE Reached(_, _, _, _)
\* The value at the end of the path from segment i on, and `default` as
\* soon as the current value is not a mapping or lacks the segment.
Reached(value, path, i, default) ==
    IF i > Len(path) THEN value
    ELSE IF ~value.dict THEN default
    ELSE IF path[i] \notin DOMAIN value.items THEN default
    ELSE Reached(value.items[path[i]], path, i + 1, default)

\* C27: get_nested_value returns the value reached by following the
\* path's segments through the nested mappings, and exactly the default as
\* soon as a segment is missing or the current value is not a mapping,
\* whatever the default is.
C27_NestedValue ==
    (call.op = "get_nested_value" /\ call.pc = "returned")
    => call.result = Reached(call.json_data, call.path, 1, call.default)

---------------------------------------------------------------------------
(* Requests of two teams.                                                  *)

\* Requests started in one behaviour of TeamsSpec.
MaxTeams == 2

\* Requests of the teams T1 and T2, each for Base69 ("1") and
\* NeedleInTheHaystack ("2").
TeamsRequests ==
    UNION {
      {Request("generate_all_question", t, None, 0, EmptyDict),
       Request("validate", t, "1", 0,
               [encoded_string |-> encode(<<79, 75>>), decoded_string |-> <<72, 105>>]),
       Request("get_hint", t, "2", 1, EmptyDict),
       Request("get_file_location", t, "2", 0, EmptyDict)} : t \in {"T1", "T2"}}

TeamsInit == InitWith(Round1, <<"T1", "T2">>)

TeamsNext == NextWith(Handlers, TeamsRequests, FALSE, MaxTeams)

\* Concurrent requests of two teams.
TeamsSpec == TeamsInit /\ [][TeamsNext]_vars

\* The team ids on whose behalf the step is taken: of the handlers that
\* move, and of the issued write that the store applies.
Movers ==
    {req[h].team_id : h \in {g \in Handlers : Running(g) /\ req'[g] # req[g]}}
    \cup {w.team_id : w \in {x \in BagToSet(pending) :
                                  CopiesIn(x, pending') < CopiesIn(x, pending)}}

\* C28: a step of an operation invoked for a team leaves the stored record
\* and the artifact files of every other team as they are, and the
\* documents an operation reads (in validate, get_hint and update_score)
\* are records of its own team, so that what it returns and writes is
\* computed from that team's record alone, under any interleaving.
C28_TeamsIndependent ==
    [][/\ Len(teams') = Len(teams)
       /\ \A i \in 1..Len(teams) :
             teams'[i] # teams[i] => teams[i].team_id \in Movers
       /\ \A loc \in DOMAIN files' :
             (loc \notin DOMAIN files \/ files'[loc] # files[loc]) => loc[2] \in Movers
       /\ \A h \in Handlers :
             /\ req'[h].team # <<>> => req'[h].team[1].team_id = req'[h].team_id
             /\ req'[h].us_team # <<>> => req'[h].us_team[1].team_id = req'[h].team_id
      ]_vars

\* C28's case: T2 has bought a hint while a request of T1 was running, and
\* T1's record is still the one create_team made.
C28_Witness ==
    /\ Len(teams) = 2
    /\ teams[1] = NewTeam(0, "T1", "Team")
    /\ teams[2].team_id = "T2"
    /\ teams[2].total_points = 0 - 200
    /\ Get(teams[2].hints, "NeedleInTheHaystack", 0) = 1
    /\ \E h \in Handlers : \E g \in Handlers :
          /\ Done(h, "get_hint") /\ req[h].team_id = "T2"
          /\ req[g].op = "validate" /\ req[g].team_id = "T1" /\ req[g].pc = "get_team"


---------------------------------------------------------------------------
(* The Base69 scenario of a new team.                                      *)

\* The Base69 entry of the question list that was returned to h's team
\* before h's request arrived.
Base69Entry(h) == req[h].prev[1][1]

\* h's submission is the correct pair for the strings of that entry.
CorrectPair(h) ==
    /\ DOMAIN req[h].data = {"encoded_string", "decoded_string"}
    /\ req[h].data.encoded_string = encode(Base69Entry(h).decode_string)
    /\ req[h].data.decoded_string = decode(Base69Entry(h).encode_string)

\* h's validate call for Base69 was the k-th request of the run, after a
\* generate_all_question, and has returned or raised.
ScenarioStep(h, k) ==
    /\ Done(h, "validate")
    /\ req[h].team_id = "T1" /\ req[h].challenge_id = "1"
    /\ nreq = k
    /\ req[h].prev # <<>>

\* C29: team T1 with no prior state has called generate_all_question and got
\* Base69's encode_string and decode_string; the validate that follows with
\* the correct pair returns status success with points_awarded 200 and
\* total_score 200; the validate after that one returns status info with
\* total_score 200, and the stored total_points is 200.
C29_Base69Scenario ==
    \A h \in Handlers :
        /\ (/\ ScenarioStep(h, 2)
            /\ req[h].pre = Created(<<"T1">>)
            /\ CorrectPair(h))
           => /\ ~Raised(req[h].ret)
              /\ req[h].ret.status = "success"
              /\ req[h].ret.points_awarded = 200
              /\ req[h].ret.total_score = 200
        /\ (/\ ScenarioStep(h, 3)
            /\ InList("Base69", req[h].pre[1].cleared_challenges)
            /\ req[h].pre[1].total_points = 200)
           => /\ ~Raised(req[h].ret)
              /\ req[h].ret.status = "info"
              /\ req[h].ret.total_score = 200
              /\ Doc("T1").total_points = 200


---------------------------------------------------------------------------
(* The question list of generate_all_question.                             *)

\* The values expected from a team for the question that an entry shows:
\* for Base69 the two that get_strings derives from the strings of the
\* entry (lines 114-117), for a file puzzle those stored for the team.
ExpectedValues(team_id, entry) ==
    IF "encode_string" \in DOMAIN entry
    THEN {encode(entry.decode_string), decode(entry.encode_string)}
    ELSE LET stored == Get(Doc(team_id).data_to_validate, entry.title, <<>>)
         IN  {stored[i].value : i \in 1..Len(stored)}

\* The strings that an entry of the question list shows besides its title,
\* its template and its id.
EntryStrings(entry) ==
    IF "encode_string" \in DOMAIN entry
    THEN {entry.encode_string, entry.decode_string,
          entry.description[2], entry.description[3]}
    ELSE {}

---------------------------------------------------------------------------
(* Submissions and hint requests of one team, one at a time.               *)

\* Requests started in one behaviour of AnswerSpec.
MaxAnswer == 3

\* Submissions for Base69 with both keys.  For the draw ("Hi" encoded, "OK"
\* to encode): the right pair; the right pair padded with white space; the
\* second field differing in case ("HI"), or with a blank inside ("H i");
\* the first field wrong; both fields wrong.  For the other draw all of
\* them are wrong in both fields.
AnswerPairs ==
    {[encoded_string |-> e, decoded_string |-> d] :
        <<e, d>> \in {<<encode(<<79, 75>>), <<72, 105>>>>,
                      <<<<32>> \o encode(<<79, 75>>) \o <<10>>, <<9, 72, 105, 32>>>>,
                      <<encode(<<79, 75>>), <<72, 73>>>>,
                      <<encode(<<79, 75>>), <<72, 32, 105>>>>,
                      <<<<88>>, <<72, 105>>>>,
                      <<<<88>>, <<88>>>>}}

\* Flags submitted for NeedleInTheHaystack: "7k", " 7k\n", "7K", "Qz".
AnswerFlags ==
    {[flag |-> f] : f \in {<<55, 107>>, <<32, 55, 107, 10>>, <<55, 75>>, <<81, 122>>}}

\* Requests of team T1 against RoundN: the two ways to get a puzzle issued,
\* submissions with all keys or without them, and hint requests in and out
\* of range for the puzzle with one hint.
AnswerRequests ==
    {Request("generate_all_question", "T1", None, 0, EmptyDict)}
    \cup {Request("get_file_location", "T1", "2", 0, EmptyDict)}
    \cup {Request("validate", "T1", "1", 0, d) : d \in AnswerPairs \cup {[other |-> <<88>>]}}
    \cup {Request("validate", "T1", "2", 0, d) : d \in AnswerFlags \cup {[other |-> <<88>>]}}
    \cup {Request("get_hint", "T1", "2", k, EmptyDict) : k \in {0, 1, 2}}

AnswerInit == InitWith(RoundN, <<"T1">>)

AnswerNext == NextWith({"h1"}, AnswerRequests, TRUE, MaxAnswer)

\* Team T1 issuing, answering and asking for hints, one request at a time.
AnswerSpec == AnswerInit /\ [][AnswerNext]_vars

\* Every expected field equals the submitted one, both stripped of the
\* white space around them, compared code point by code point.
AllFieldsMatch(expected, data) ==
    \A i \in 1..Len(expected) : Strip(data[expected[i].key]) = Strip(expected[i].value)

\* h's validate call reads a team with validation data for its uncleared
\* puzzle, and the submission has every expected key.
ValidateCompares(h) ==
    /\ ValidateReads(h)
    /\ StoredExpected(h) # <<>>
    /\ MissingKeys(StoredExpected(h), req[h].data) = <<>>

\* C31: validate compares every expected value with the submitted one as
\* stripped strings, case-sensitively: it goes on to update_score(true,
\* points) iff all fields match and to update_score(false, penalty) with the
\* failure response otherwise; and when a failed validate has returned, one
\* update_score call was made for it: one attempt more and the penalty taken
\* once, however many fields were wrong.
C31_StrippedComparison ==
    [][\A h \in Handlers :
          /\ ValidateCompares(h)
             => LET match == AllFieldsMatch(StoredExpected(h), req[h].data)
                    cls   == challenges_classes[req[h].challenge_id]
                IN  /\ req'[h].pc = "us_read"
                    /\ req'[h].plan.next = "update_score"
                    /\ req'[h].plan.is_correct = match
                    /\ req'[h].plan.points = IF match THEN cls.points ELSE cls.penalty
                    /\ req'[h].plan.ret.status = IF match THEN "success" ELSE "failure"
          /\ ( /\ req[h].op = "validate" /\ req[h].pc = "us_write"
               /\ req'[h].pc = "done" /\ ~req[h].plan.is_correct )
             => LET p == challenges_id[req[h].challenge_id]
                    d == Doc(req[h].team_id)
                    d2 == get_team(teams', req[h].team_id)[1]
                IN  /\ Get(d2.total_attempts, p, 0) = Get(d.total_attempts, p, 0) + 1
                    /\ Get(d2.incorrect_attempts, p, 0) = Get(d.incorrect_attempts, p, 0) + 1
                    /\ Get(d2.points, p, 0) = Get(d.points, p, 0) - PuzzleClass(h).penalty
                    /\ d2.total_points = d.total_points - PuzzleClass(h).penalty
      ]_vars

\* C31's case: a Base69 submission wrong in both fields has returned the
\* failure response, with one attempt recorded and the penalty of 40 taken
\* once.
C31_Witness ==
    \E h \in Handlers :
        /\ Done(h, "validate")
        /\ PuzzleName(h) = "Base69"
        /\ req[h].data = [encoded_string |-> <<88>>, decoded_string |-> <<88>>]
        /\ ~Raised(req[h].ret)
        /\ req[h].ret.status = "failure"
        /\ Doc("T1").total_attempts["Base69"] = 1
        /\ Doc("T1").incorrect_attempts["Base69"] = 1
        /\ Doc("T1").points["Base69"] = 0 - 40


\* The submissions of the model with every expected key that are wrong in
\* at least one field.
WrongSubmissions(expected) ==
    {d \in AnswerPairs \cup AnswerFlags :
        /\ \A i \in 1..Len(expected) : expected[i].key \in DOMAIN d
        /\ ~AllFieldsMatch(expected, d)}

\* The document after one update_score(false, penalty) call for puzzle p.
Penalised(doc, p, penalty) ==
    [doc EXCEPT !.points             = Put(@, p, Get(@, p, 0) - penalty),
                !.total_points       = @ - penalty,
                !.total_attempts     = Put(@, p, Get(@, p, 0) + 1),
                !.incorrect_attempts = Put(@, p, Get(@, p, 0) + 1)]

\* C32: a validate call with all expected keys and some field wrong gets,
\* from a given team state, the outcome that every other such submission
\* gets from that state, whichever fields are wrong: the same response
\* (status, message, penalty_points, total_score, built without the
\* submission) and the same update_score call, and the store after the call
\* is the store before it with the one penalty recorded.
C32_WrongFieldHidden ==
    [][\A h \in Handlers :
          /\ (ValidateCompares(h) /\ ~AllFieldsMatch(StoredExpected(h), req[h].data))
             => /\ \A d \in WrongSubmissions(StoredExpected(h)) :
                      validate(Doc(req[h].team_id), req[h].challenge_id, d) = req'[h].plan
                /\ DOMAIN req'[h].plan.ret =
                      {"challenge_id", "challenge_name", "status", "message",
                       "penalty_points", "total_score"}
                /\ req'[h].plan.ret.message = "Your answer is incorrect."
          /\ ( /\ req[h].op = "validate" /\ req[h].pc = "us_write"
               /\ req'[h].pc = "done" /\ ~req[h].plan.is_correct )
             => /\ req'[h].ret = req[h].plan.ret
                /\ teams' = [teams EXCEPT ![Match(teams, req[h].team_id)] =
                                Penalised(@, PuzzleName(h), PuzzleClass(h).penalty)]
      ]_vars

\* C32's case: a Base69 submission with the first field right and the
\* second one wrong has returned the failure response, in a state from
\* which the model also has submissions wrong in the first field and in both.
C32_Witness ==
    \E h \in Handlers :
        /\ Done(h, "validate")
        /\ PuzzleName(h) = "Base69"
        /\ ~Raised(req[h].ret)
        /\ req[h].ret.status = "failure"
        /\ req[h].data.encoded_string = StoredExpected(h)[1].value
        /\ req[h].data.decoded_string # StoredExpected(h)[2].value
        /\ Cardinality(WrongSubmissions(StoredExpected(h))) >= 3


---------------------------------------------------------------------------
(* The total_score of a response.                                          *)

\* C33: with requests of one team interleaved in any way, the total_score
\* in a validate success or failure response or in a get_hint response is
\* the team's stored total_points right after the update_one of that call's
\* own update_score, and the stored total_points at the read when the call
\* makes no update.
C33_ReportedTotal ==
    [][\A h \in Handlers :
          /\ ( /\ req[h].op \in {"validate", "get_hint"}
               /\ req[h].pc = "us_write" /\ req'[h] # req[h]
               /\ is_team_exists(teams, req[h].team_id) )
             => req[h].plan.ret.total_score
                   = get_team(teams', req[h].team_id)[1].total_points
          /\ ( /\ req[h].op \in {"validate", "get_hint"}
               /\ req[h].pc = "get_team" /\ req'[h].pc = "done"
               /\ ~Raised(req'[h].ret)
               /\ "total_score" \in DOMAIN req'[h].ret )
             => req'[h].ret.total_score = Doc(req[h].team_id).total_points
      ]_vars


---------------------------------------------------------------------------
(* The hint counter.                                                       *)

\* C34: in every state, for every team and puzzle p with n hints,
\* 0 <= hints[p] <= n, and no step lowers hints[p], whatever the sequence
\* and interleaving of get_hint calls.
C34_HintsInRange ==
    /\ [](\A i \in 1..Len(teams) : \A id \in DOMAIN challenges_classes :
             LET taken == Get(teams[i].hints, challenges_id[id], 0)
             IN  0 <= taken /\ taken <= Len(challenges_classes[id].hints))
    /\ [][\A i \in 1..Len(teams) : \A id \in DOMAIN challenges_id :
             Get(teams'[i].hints, challenges_id[id], 0)
                >= Get(teams[i].hints, challenges_id[id], 0)]_vars


---------------------------------------------------------------------------
(* The cleared check.                                                      *)

\* The response of validate for a cleared puzzle.
ClearedValidate(h) ==
    [challenge_id   |-> req[h].challenge_id,
     challenge_name |-> challenges_id[req[h].challenge_id],
     status         |-> "info",
     message        |-> "You have already cleared this level.",
     total_score    |-> Doc(req[h].team_id).total_points]

\* The response of get_hint for a cleared puzzle.
ClearedHint(h) ==
    [challenge_id   |-> req[h].challenge_id,
     challenge_name |-> challenges_id[req[h].challenge_id],
     status         |-> "info",
     message        |-> "You have already cleared this level."]

\* C35: when validate or get_hint reads a team that has the puzzle in
\* cleared_challenges, it returns the already-cleared response and raises
\* nothing, whatever was submitted (expected fields missing, no validation
\* data) and whatever the hint number (outside 1..len(hints)); the store is
\* not touched.
C35_ClearedFirst ==
    [][\A h \in Handlers :
          ( /\ req[h].op \in {"validate", "get_hint"}
            /\ req[h].pc = "get_team" /\ req'[h] # req[h]
            /\ is_team_exists(teams, req[h].team_id)
            /\ InList(challenges_id[req[h].challenge_id],
                      Doc(req[h].team_id).cleared_challenges) )
          => /\ req'[h].pc = "done"
             /\ req'[h].ret = IF req[h].op = "validate"
                              THEN ClearedValidate(h) ELSE ClearedHint(h)
             /\ teams' = teams
      ]_vars

\* C35's case: for a cleared NeedleInTheHaystack, a submission without the
\* flag key or a request for hint 0 or 2 of its single hint got the
\* already-cleared response.
C35_Witness ==
    \E h \in Handlers :
        /\ req[h].pc = "done"
        /\ Addressed(h)
        /\ PuzzleName(h) = "NeedleInTheHaystack"
        /\ InList("NeedleInTheHaystack", req[h].pre[1].cleared_challenges)
        /\ \/ req[h].op = "validate" /\ req[h].data = [other |-> <<88>>]
           \/ req[h].op = "get_hint" /\ req[h].hint_no \in {0, 2}
        /\ ~Raised(req[h].ret)
        /\ req[h].ret.status = "info"


---------------------------------------------------------------------------
(* The attempt counters.                                                   *)

\* The update_one of an update_score(false, ...) call for puzzle p, made for
\* a wrong submission or inside update_hint_score for a hint, is applied to
\* the i-th document in this step.
FailureApplied(i, p) ==
    \E h \in Handlers :
        /\ req[h].pc = "us_write" /\ req'[h] # req[h]
        /\ ~req[h].plan.is_correct
        /\ Match(teams, req[h].team_id) = i
        /\ challenges_id[req[h].challenge_id] = p

\* C36: in every state, for every team and puzzle p,
\* 0 <= incorrect_attempts[p] <= total_attempts[p] and total_attempts[p] -
\* incorrect_attempts[p] is the number of occurrences of p in
\* cleared_challenges; incorrect_attempts[p] starts at 0 and rises by one
\* with each wrong submission and each hint paid, and with nothing else, so
\* it equals their number.
C36_AttemptCounts ==
    /\ [](\A i \in 1..Len(teams) : \A id \in DOMAIN challenges_id :
             LET p         == challenges_id[id]
                 incorrect == Get(teams[i].incorrect_attempts, p, 0)
                 total     == Get(teams[i].total_attempts, p, 0)
             IN  /\ 0 <= incorrect /\ incorrect <= total
                 /\ total - incorrect = Count(teams[i].cleared_challenges, p))
    /\ [][\A i \in 1..Len(teams) : \A id \in DOMAIN challenges_id :
             LET p == challenges_id[id]
             IN  Get(teams'[i].incorrect_attempts, p, 0)
                    = Get(teams[i].incorrect_attempts, p, 0)
                      + (IF FailureApplied(i, p) THEN 1 ELSE 0)]_vars

\* C36's case: the team has one wrong and one right submission for Base69
\* and one hint paid for NeedleInTheHaystack.
C36_Witness ==
    \E i \in 1..Len(teams) :
        /\ Get(teams[i].incorrect_attempts, "Base69", 0) = 1
        /\ Get(teams[i].total_attempts, "Base69", 0) = 2
        /\ Count(teams[i].cleared_challenges, "Base69") = 1
        /\ Get(teams[i].incorrect_attempts, "NeedleInTheHaystack", 0) = 1
        /\ Get(teams[i].hints, "NeedleInTheHaystack", 0) = 1


---------------------------------------------------------------------------
(* get_file_location.                                                      *)

\* The document has a location and validation data stored for puzzle p.
HasFile(doc, p) ==
    /\ p \in DOMAIN doc.questions
    /\ "location" \in DOMAIN doc.questions[p]
    /\ Get(doc.data_to_validate, p, <<>>) # <<>>

\* C37: for a file puzzle p and an existing team, every step of
\* get_file_location leaves total_points, points, hints, the attempt
\* counters and cleared_challenges as they are; when the call returns,
\* questions[p].location, which is the value returned, and
\* data_to_validate[p] are stored; and a call that finds them stored
\* returns the stored location and writes neither the store nor a file,
\* also when p is cleared.
C37_FileLocationIssues ==
    [][\A h \in Handlers :
          ( /\ req[h].op = "get_file_location"
            /\ req[h].pc \in {"gen_read", "gen_write"} /\ req'[h] # req[h]
            /\ is_team_exists(teams, req[h].team_id) )
          => LET p  == challenges_id[req[h].challenge_id]
                 d  == Doc(req[h].team_id)
                 d2 == get_team(teams', req[h].team_id)[1]
             IN  /\ d2.total_points = d.total_points
                 /\ d2.points = d.points
                 /\ d2.hints = d.hints
                 /\ d2.total_attempts = d.total_attempts
                 /\ d2.incorrect_attempts = d.incorrect_attempts
                 /\ d2.cleared_challenges = d.cleared_challenges
                 /\ (req[h].pc = "gen_read" /\ HasFile(d, p))
                    => /\ req'[h].pc = "done"
                       /\ req'[h].ret = [location |-> d.questions[p].location]
                       /\ teams' = teams
                       /\ files' = files
                 /\ req'[h].pc = "done"
                    => /\ ~Raised(req'[h].ret)
                       /\ HasFile(d2, p)
                       /\ d2.questions[p].location = req'[h].ret.location
      ]_vars

\* C37's case: get_file_location has returned the stored location for a
\* puzzle that the team had cleared before the call.
C37_Witness ==
    \E h \in Handlers :
        /\ Done(h, "get_file_location")
        /\ Addressed(h)
        /\ InList(PuzzleName(h), req[h].pre[1].cleared_challenges)
        /\ ~Raised(req[h].ret)
        /\ req[h].ret.location = req[h].pre[1].questions[PuzzleName(h)].location


---------------------------------------------------------------------------
(* get_hint and the issued content.                                        *)

\* C38: no step of get_hint creates or changes questions, data_to_validate
\* or cleared_challenges of any team; and get_hint does not ask for the
\* puzzle to be issued: for a team with nothing stored for the puzzle, the
\* next hint is returned and its cost goes to update_hint_score.
C38_HintNeedsNoQuestion ==
    [][\A h \in Handlers :
          (req[h].op = "get_hint" /\ req'[h] # req[h])
          => /\ Len(teams') = Len(teams)
             /\ \A i \in 1..Len(teams) :
                   /\ teams'[i].questions = teams[i].questions
                   /\ teams'[i].data_to_validate = teams[i].data_to_validate
                   /\ teams'[i].cleared_challenges = teams[i].cleared_challenges
             /\ ( /\ req[h].pc = "get_team"
                  /\ is_team_exists(teams, req[h].team_id)
                  /\ req[h].challenge_id \in DOMAIN challenges_id
                  /\ LET d == Doc(req[h].team_id)
                         p == challenges_id[req[h].challenge_id]
                     IN  /\ p \notin DOMAIN d.questions
                         /\ p \notin DOMAIN d.data_to_validate
                         /\ ~InList(p, d.cleared_challenges)
                         /\ req[h].hint_no = Get(d.hints, p, 0) + 1
                         /\ req[h].hint_no <= Len(PuzzleClass(h).hints) )
                => /\ req'[h].pc = "us_read"
                   /\ req'[h].plan.next = "update_hint_score"
                   /\ req'[h].plan.points = PuzzleClass(h).hints[req[h].hint_no][1]
                   /\ req'[h].plan.ret.hint = PuzzleClass(h).hints[req[h].hint_no][2]
      ]_vars

\* C38's case: the hint of NeedleInTheHaystack was bought, its cost of 200
\* deducted, by a team that has no question and no validation data stored
\* for the puzzle.
C38_Witness ==
    \E h \in Handlers :
        /\ Done(h, "get_hint")
        /\ Addressed(h)
        /\ PuzzleName(h) = "NeedleInTheHaystack"
        /\ ~Raised(req[h].ret)
        /\ "hint_cost" \in DOMAIN req[h].ret
        /\ "NeedleInTheHaystack" \notin DOMAIN Doc(req[h].team_id).questions
        /\ "NeedleInTheHaystack" \notin DOMAIN Doc(req[h].team_id).data_to_validate
        /\ Doc(req[h].team_id).points["NeedleInTheHaystack"] = 0 - 200
        /\ Doc(req[h].team_id).hints["NeedleInTheHaystack"] = 1


---------------------------------------------------------------------------
(* The ids of the registry.                                                *)

\* C39: when the registry load has returned with k generators loaded,
\* challenges_id and challenges_classes have the same key set, the strings
\* "1" .. "k", and id i belongs to the i-th puzzle module in sorted path
\* order, in whatever order the modules were found; no step changes the
\* registry after the load.
C39_RegistryIds ==
    /\ []((call.op = "AllChallenges" /\ call.pc = "returned")
          => LET k == Cardinality(DOMAIN challenges_classes)
             IN  /\ DOMAIN challenges_classes = {IdOf(i) : i \in 1..k}
                 /\ DOMAIN challenges_id = DOMAIN challenges_classes
                 /\ k <= Len(call.source.modules)
                 /\ \A i \in 1..k :
                       /\ Len(call.source.modules[i]) = 1
                       /\ challenges_classes[IdOf(i)] = call.source.modules[i][1]
                       /\ challenges_id[IdOf(i)] = call.source.modules[i][1].name)
    /\ [][call.pc # "called"
          => /\ challenges_id' = challenges_id
             /\ challenges_classes' = challenges_classes]_vars


---------------------------------------------------------------------------
(* Base69's conversions on their own, next to the generation that uses     *)
(* them.                                                                   *)

\* Digits of the largest power of RADIX tried by the number round trip.
MaxRadixDigits == 3

\* Every number up to MaxDecimal is tried.
MaxDecimal == 70

\* Characters of the longest string tried by the string round trip.
MaxCodeLen == 3

\* generate_all_question requests in one behaviour of CodecSpec.
MaxDraws == 2

RECURSIVE Power(_, _)
Power(b, k) == IF k = 0 THEN 1 ELSE b * Power(b, k - 1)

\* The arguments of decimal_to_radix: the small numbers, and the numbers
\* around each power of RADIX, where the digit count changes.
Decimals ==
    (0..MaxDecimal)
        \cup UNION {{Power(RADIX, k) - 1, Power(RADIX, k), Power(RADIX, k) + 1,
                     2 * Power(RADIX, k) + 5} : k \in 1..MaxRadixDigits}

\* ASCII code points: NUL, SOH, "A", DEL.
AsciiCodes == {0, 1, 65, 127}

\* The arguments of encode: ASCII strings, the empty one included, some
\* starting with NUL.
AsciiStrings == UNION {[1..n -> AsciiCodes] : n \in 0..MaxCodeLen}

CodecCalls ==
    {[op |-> "radix_to_decimal", pc |-> "called", num |-> n, string |-> <<>>,
      num_result |-> 0, string_result |-> <<>>] : n \in Decimals}
        \cup
    {[op |-> "decode", pc |-> "called", num |-> 0, string |-> s,
      num_result |-> 0, string_result |-> <<>>] : s \in AsciiStrings}

CodecInit ==
    /\ teams = Created(<<"T1">>)
    /\ files = EmptyDict
    /\ pending = EmptyBag
    /\ challenges_id = LoadIds(<<Base69>>)
    /\ challenges_classes = LoadClasses(<<Base69>>)
    /\ req = [h \in Handlers |-> IdleReq]
    /\ nreq = 0
    /\ applied = EmptyDict
    /\ returned = EmptyDict
    /\ call \in CodecCalls

\* radix_to_decimal(decimal_to_radix(num)) is evaluated.
RadixCall ==
    /\ call.op = "radix_to_decimal"
    /\ call.pc = "called"
    /\ call' = [call EXCEPT !.pc = "returned",
                            !.num_result = radix_to_decimal(decimal_to_radix(call.num))]
    /\ UNCHANGED <<teams, files, pending, challenges_id, challenges_classes,
                   req, nreq, applied, returned>>

\* decode(encode(string)) is evaluated.
DecodeCall ==
    /\ call.op = "decode"
    /\ call.pc = "called"
    /\ call' = [call EXCEPT !.pc = "returned",
                            !.string_result = decode(encode(call.string))]
    /\ UNCHANGED <<teams, files, pending, challenges_id, challenges_classes,
                   req, nreq, applied, returned>>

CodecNext ==
    \/ RadixCall
    \/ DecodeCall
    \/ \E h \in {"h1"} :
          Start(h, Request("generate_all_question", "T1", None, 0, EmptyDict), MaxDraws)
    \/ \E h \in {"h1"} : Exists(h)
    \/ \E h \in {"h1"} : GenRead(h)
    \/ \E w \in BagToSet(pending) : Apply(w)

\* The two conversions called directly, and team T1's Base69 question
\* being generated.
CodecSpec == CodecInit /\ [][CodecNext]_vars

\* The value stored under `key` in a list of expected values.
ExpectedFor(validation, key) ==
    validation[CHOOSE i \in 1..Len(validation) : validation[i].key = key].value

\* The decoded_string of the write is a sample, and the write's
\* encode_string is that sample encoded.
SampleEncoded(question, validation) ==
    /\ ExpectedFor(validation, "decoded_string") \in samples
    /\ question.encode_string = encode(ExpectedFor(validation, "decoded_string"))

\* C40: radix_to_decimal(decimal_to_radix(n)) = n for every n >= 0, and
\* decode(encode(s)) = s for every ASCII string s that does not start with
\* NUL; so the decoded_string stored in data_to_validate.Base69 is the
\* sample that was encoded into questions.Base69.encode_string.
C40_RoundTrips ==
    /\ (call.op = "radix_to_decimal" /\ call.pc = "returned")
          => call.num_result = call.num
    /\ (call.op = "decode" /\ call.pc = "returned"
          /\ (call.string = <<>> \/ call.string[1] # 0))
          => call.string_result = call.string
    /\ \A i \in 1..Len(teams) :
          "Base69" \in DOMAIN teams[i].data_to_validate
             => SampleEncoded(teams[i].questions.Base69, teams[i].data_to_validate.Base69)
    /\ \A w \in BagToSet(pending) : SampleEncoded(w.write.question, w.write.validation)

\* A three-character string with NUL inside and not in front came back
\* from decode(encode(s)), and T1's Base69 question has been stored.
C40_Witness ==
    /\ call.op = "decode"
    /\ call.pc = "returned"
    /\ Len(call.string) = 3
    /\ call.string[1] # 0
    /\ call.string[2] = 0
    /\ call.string_result = call.string
    /\ "Base69" \in DOMAIN teams[1].data_to_validate

====
